---------------------------- MODULE Spec2Model ----------------------------
(***************************************************************************)
(* A model of libfb2 / libsb (mitsuhiko/frostbite2-stuff): the obfuscated  *)
(* stream reader, the bounded TypeReader, and the tagged binary object     *)
(* decoder (SBParser) in its eager (parse) and streaming (iterparse) form. *)
(*                                                                         *)
(* Bytes are the integers 0..255, byte strings are sequences of bytes.     *)
(* A Python file object is its content (a byte string) and a cursor.       *)
(***************************************************************************)
EXTENDS Integers, Sequences, FiniteSets, TLC

VARIABLES
    file,    \* content of the file the reader is built over
    cls,     \* the reader class in use
    st,      \* "new" | "open" | "failed" | "done" | "iter"
    rd,      \* the reader object (cursor of the file included)
    last,    \* what the last operation returned
    it,      \* the iterparse generator: event generator frames, path stack
    os,      \* the files on disk and the table of open files
    heap,    \* catalog, bundle, scanner, file records and the readers opened
    ghost    \* how the input was made (plaintext, keystream, tree, ...)

vars == <<file, cls, st, rd, last, it, os, heap, ghost>>

(***************************************************************************)
(* Program constants                                                       *)
(***************************************************************************)
DICE_HEADER == <<0, 209, 206, 0>>
HASH_OFFSET == 8
HASH_SIZE == 256
MAGIC_OFFSET == 296
MAGIC_SIZE == 257
MAGIC_XOR == 123
DATA_OFFSET == 556
X_MARK == 120
BLOB_CHUNK == 4096

(***************************************************************************)
(* Bounds of the model                                                     *)
(***************************************************************************)
\* payload bytes past one full keystream period
MaxTail == 3

(***************************************************************************)
(* Helpers                                                                 *)
(***************************************************************************)
Min(a, b) == IF a < b THEN a ELSE b
Max(a, b) == IF a > b THEN a ELSE b

RECURSIVE XorBits(_, _)
\* bitwise exclusive or of two naturals
XorBits(a, b) ==
    IF a = 0 THEN b
    ELSE IF b = 0 THEN a
    ELSE ((a + b) % 2) + 2 * XorBits(a \div 2, b \div 2)

\* the same as a table over bytes
XorTable == [a \in 0..255 |-> [b \in 0..255 |-> XorBits(a, b)]]

\* the ^ operator on two bytes
Xor(a, b) == XorTable[a][b]

Ok(v, r) == [ok |-> TRUE, v |-> v, err |-> "none", rd |-> r]
Fail(e, r) == [ok |-> FALSE, v |-> <<>>, err |-> e, rd |-> r]

\* no file on disk, no open file; no object
NoOs == [disk |-> <<>>, ofd |-> <<>>, fd |-> <<>>]
NoHeap == [kind |-> "none"]

(***************************************************************************)
(* The Python file object: read(n), seek, tell on a cursor                 *)
(***************************************************************************)
\* fp.read(n) at cursor cur: up to n bytes, all the rest when n < 0
FileRead(data, cur, n) ==
    IF cur >= Len(data) THEN <<>>
    ELSE IF n < 0 THEN SubSeq(data, cur + 1, Len(data))
    ELSE SubSeq(data, cur + 1, Min(cur + n, Len(data)))

\* History kept with the reader, for stating properties (not program state):
\* met: the bytes read where a typecode is expected, seen: the typecodes
\* read_object was given, hints: where the size hints lie, blobs: the
\* events of each blob read.
NoHistory == [met |-> {}, seen |-> {}, hints |-> {}, blobs |-> <<>>]

\* a reader at pos 0 over the file region that starts at offset
NewReader(offset, limit, keyed, magic) ==
    [cur |-> offset, offset |-> offset, limit |-> limit, pos |-> 0,
     keyed |-> keyed, magic |-> magic, h |-> NoHistory]

NoReader == NewReader(0, 0, FALSE, <<>>)

(***************************************************************************)
(* DecryptingTypeReader.__init__ / SBReader.__init__                       *)
(***************************************************************************)
\* the header branch: markers, hash, keystream
ReadObfHeader(data) ==
    LET m1 == FileRead(data, HASH_OFFSET, 1)
        hash == FileRead(data, HASH_OFFSET + Len(m1), HASH_SIZE)
        m2 == FileRead(data, HASH_OFFSET + Len(m1) + Len(hash), 1)
        magic == FileRead(data, MAGIC_OFFSET, MAGIC_SIZE)
    IN  IF m1 # <<X_MARK>> THEN Fail("Hash start marker not found", NoReader)
        ELSE IF m2 # <<X_MARK>> THEN Fail("Hash end marker not found", NoReader)
        ELSE IF Len(magic) # MAGIC_SIZE THEN Fail("Magic incomplete", NoReader)
        ELSE Ok(magic, NoReader)

\* the reader after construction over data, or the failure
ObfInit(data) ==
    LET header == FileRead(data, 0, Len(DICE_HEADER))
    IN  IF header # DICE_HEADER
        THEN Ok(0, NewReader(0, Len(data), FALSE, <<>>))
        ELSE LET h == ReadObfHeader(data)
             IN  IF ~h.ok THEN h
                 ELSE Ok(0, NewReader(DATA_OFFSET, Len(data) - DATA_OFFSET,
                                      TRUE, h.v))

(***************************************************************************)
(* TypeReader.read, DecryptingTypeReader.read, SBReader.read               *)
(***************************************************************************)
\* the end of read: rv is what the file gave for a request of n bytes
Delivered(r, n, rv) ==
    IF Len(rv) # n
    THEN Fail("Unexpected end of file", [r EXCEPT !.cur = r.cur + Len(rv)])
    ELSE Ok(rv, [r EXCEPT !.cur = r.cur + Len(rv), !.pos = r.pos + n])

\* TypeReader.read(length); length < 0 stands for None.  A request larger
\* than limit - pos is cut down to limit - pos before the file is read.
RawRead(data, r, length) ==
    Delivered(r, IF length < 0 THEN r.limit - r.pos
                 ELSE Min(length, r.limit - r.pos),
              FileRead(data, r.cur, IF length < 0 THEN r.limit - r.pos
                                    ELSE Min(length, r.limit - r.pos)))

\* SBReader.read(length): the request is not cut down to the end
SBRawRead(data, r, length) ==
    Delivered(r, IF length < 0 THEN r.limit - r.pos ELSE length,
              FileRead(data, r.cur, IF length < 0 THEN r.limit - r.pos ELSE length))

MutUnmaskAbsolute(magic, start, raw) ==
    [off \in 1..Len(raw) |->
        Xor(Xor(raw[off], magic[((DATA_OFFSET + start + off - 1) % MAGIC_SIZE) + 1]),
            MAGIC_XOR)]

\* the unmasking loop: byte off of a read that started at start
Unmask(magic, start, raw) ==
    [off \in 1..Len(raw) |->
        Xor(Xor(raw[off], magic[((start + off - 1) % MAGIC_SIZE) + 1]),
            MAGIC_XOR)]

\* DecryptingTypeReader.read after TypeReader.read came back with got
Unmasked(r, got) ==
    IF ~got.ok \/ ~r.keyed THEN got
    ELSE Ok(Unmask(r.magic, r.pos, got.v), got.rd)

\* read through the reader of class c
Read(c, data, r, length) ==
    Unmasked(r, IF c = "SBReader" THEN SBRawRead(data, r, length)
                ELSE RawRead(data, r, length))

MutSeekNoClamp(r, delta, how) ==
    LET target == IF how = 0 THEN delta
                  ELSE IF how = 1 THEN delta + r.pos
                  ELSE r.limit - delta
    IN  [r EXCEPT !.cur = r.offset + target, !.pos = target]

\* TypeReader.seek(delta, how) for how in 0, 1, 2
Seek(r, delta, how) ==
    LET target == IF how = 0 THEN Max(0, Min(delta, r.limit))
                  ELSE IF how = 1 THEN Max(0, Min(delta + r.pos, r.limit))
                  ELSE Max(0, Min(r.limit - delta, r.limit))
    IN  [r EXCEPT !.cur = r.offset + target, !.pos = target]

\* the values of how that seek has a branch for; any other raises
SeekMethods == {0, 1, 2}

\* TypeReader.tell()
Tell(r) == r.pos

\* the eof property
Eof(r) == r.pos >= r.limit

(***************************************************************************)
(* TypeReader primitives                                                   *)
(***************************************************************************)
\* the reader class and the file it reads
Cx(c, data) == [c |-> c, data |-> data]

\* read_cstring on a read(1) that returns '' for ever: the call never returns
NEVER_RETURNS == "never returns"

RECURSIVE Pow2(_)
Pow2(n) == IF n = 0 THEN 1 ELSE 2 * Pow2(n - 1)

\* ord(got); ord('') raises TypeError
Ord(got) ==
    IF ~got.ok THEN got
    ELSE IF Len(got.v) # 1 THEN Fail("ord() expected a character", got.rd)
    ELSE Ok(got.v[1], got.rd)

\* read_byte: ord(self.read(1))
ReadByte(cx, r) == Ord(Read(cx.c, cx.data, r, 1))

\* x << k on a Python integer (no width: the result never wraps)
Shl(x, k) == IF x = 0 THEN 0 ELSE x * Pow2(k)

RECURSIVE BitOr(_, _)
\* a | b on two naturals
BitOr(a, b) ==
    IF a = 0 THEN b
    ELSE IF b = 0 THEN a
    ELSE Max(a % 2, b % 2) + 2 * BitOr(a \div 2, b \div 2)

MutVarintOrByteShift(idx, rv, byte) == BitOr(rv, Shl(byte % 128, 8 * idx))

\* rv |= (byte & 0x7f) << (7 * idx)
VarintOr(idx, rv, byte) == BitOr(rv, Shl(byte % 128, 7 * idx))

RECURSIVE VarintLoop(_, _, _, _)
\* one round of read_varint with the byte b; the loop ends on a byte with
\* byte >> 7 = 0 and on nothing else
VarintStep(cx, idx, rv, b) ==
    IF ~b.ok THEN b
    ELSE IF b.v \div 128 = 0 THEN Ok(VarintOr(idx, rv, b.v), b.rd)
    ELSE VarintLoop(cx, b.rd, idx + 1, VarintOr(idx, rv, b.v))

\* the loop of read_varint
VarintLoop(cx, r, idx, rv) == VarintStep(cx, idx, rv, ReadByte(cx, r))

ReadVarint(cx, r) == VarintLoop(cx, r, 0, 0)

RECURSIVE CStringLoop(_, _, _)
\* one round of read_cstring with c = self.read(1)
CStringStep(cx, rv, c) ==
    IF ~c.ok THEN c
    ELSE IF c.v = <<>> THEN Fail(NEVER_RETURNS, c.rd)
    ELSE IF c.v = <<0>> THEN Ok(rv, c.rd)
    ELSE CStringLoop(cx, c.rd, rv \o c.v)

\* the loop of read_cstring
CStringLoop(cx, r, rv) == CStringStep(cx, rv, Read(cx.c, cx.data, r, 1))

ReadCString(cx, r) == CStringLoop(cx, r, <<>>)

\* the end of read_bstring, with rv as read
BStringEnd(rv) ==
    IF ~rv.ok THEN rv
    ELSE IF rv.v = <<>> \/ rv.v[Len(rv.v)] # 0
    THEN Fail("missing bstring delimiter", rv.rd)
    ELSE Ok(SubSeq(rv.v, 1, Len(rv.v) - 1), rv.rd)

\* read_bstring once its length n is read
BStringBody(cx, n) ==
    IF ~n.ok THEN n ELSE BStringEnd(Read(cx.c, cx.data, n.rd, n.v))

ReadBString(cx, r) == BStringBody(cx, ReadVarint(cx, r))

\* struct '<l': four bytes, little-endian, signed
UnpackL(b) ==
    b[1] + 256 * b[2] + 65536 * b[3]
        + 16777216 * (IF b[4] >= 128 THEN b[4] - 256 ELSE b[4])

\* st.unpack(data): raises struct.error on a string of another length.  A
\* 64-bit integer is kept as its 8 bytes.
Unpack(size, d) ==
    IF ~d.ok THEN d
    ELSE IF Len(d.v) # size THEN Fail("struct.error", d.rd)
    ELSE Ok(IF size = 4 THEN UnpackL(d.v) ELSE d.v, d.rd)

\* read_sst of a struct of size bytes
ReadSst(cx, r, size) == Unpack(size, Read(cx.c, cx.data, r, size))

\* UUID(bytes=d) raises ValueError unless it gets 16 bytes
UuidOf(d) ==
    IF ~d.ok THEN d
    ELSE IF Len(d.v) # 16 THEN Fail("bytes is not a 16-char string", d.rd)
    ELSE d

ReadUuid(cx, r) == UuidOf(Read(cx.c, cx.data, r, 16))

\* bool(b)
BoolOf(b) == IF b.ok THEN Ok(b.v # 0, b.rd) ELSE b

(***************************************************************************)
(* Values and events                                                       *)
(***************************************************************************)
Val(t, v) == [t |-> t, v |-> v]
VNull == Val("null", 0)
VList(s) == Val("list", s)
VDict(d) == Val("dict", d)
VBlob(b) == Val("blob", b)
EmptyDict == [k \in {} |-> 0]
\* rv[key] = value
DictPut(d, key, value) ==
    [k \in DOMAIN d \cup {key} |-> IF k = key THEN value ELSE d[k]]

Frame(f, pc, tc) == [f |-> f, pc |-> pc, tc |-> tc, idx |-> 0, n |-> 0]
Gen(r, fr) == [rd |-> r, fr |-> fr]
NoGen == Gen(NoReader, <<>>)

\* what a call comes back with: an event, the end of the generator, a
\* value, or an exception
Outcome(k, e, v, err, raw, g) ==
    [k |-> k, e |-> e, v |-> v, err |-> err, raw |-> raw,
     code |-> IF raw < 0 THEN -1 ELSE raw % 32, g |-> g]
Ev(e, v, g) == Outcome("event", e, v, "none", -1, g)
Stop(g) == Outcome("stop", "none", 0, "StopIteration", -1, g)
Done(v, g) == Outcome("ok", "none", v, "none", -1, g)
\* an exception leaves the generator that raised it finished
Raise(err, r) ==
    Outcome(IF err = NEVER_RETURNS THEN "hang" ELSE "error", "none", 0, err, -1,
            Gen(r, <<>>))
RaiseIn(err, g) == Outcome("error", "none", 0, err, -1, g)

(***************************************************************************)
(* History notes                                                           *)
(***************************************************************************)
\* the number of lists and dicts the frames fr are inside of
Depth(fr) == Cardinality({i \in 1..Len(fr) : fr[i].f \in {"read_list", "read_dict"}})

\* a byte was read where a typecode is expected
NoteMet(r, raw, depth) ==
    [r EXCEPT !.h.met = @ \cup {[raw |-> raw, depth |-> depth, at |-> r.pos - 1]}]
\* read_object was given the typecode raw
NoteSeen(r, raw, depth) ==
    [r EXCEPT !.h.seen = @ \cup {[raw |-> raw, depth |-> depth]}]
\* a size hint of len bytes lies at payload position at
NoteHint(r, at, len) ==
    [r EXCEPT !.h.hints = @ \cup {[at |-> at, len |-> len]}]
NoteBlobStart(r, n) ==
    [r EXCEPT !.h.blobs = Append(@, [n |-> n, chunks |-> <<>>, ended |-> FALSE])]
NoteBlobChunk(r, len) ==
    [r EXCEPT !.h.blobs[Len(r.h.blobs)].chunks = Append(@, len)]
NoteBlobEnd(r) ==
    [r EXCEPT !.h.blobs[Len(r.h.blobs)].ended = TRUE]

(***************************************************************************)
(* SBParser.read_object / read_list / read_dict / read_blob: generators,   *)
(* kept as the stack fr of their suspended frames                          *)
(***************************************************************************)
\* the low five bits of a typecode byte
TypeOf(raw) == raw % 32
\* the typecodes read_object has a branch for
KnownTypes == {0, 1, 2, 5, 6, 7, 8, 9, 15, 16, 19}

\* the end-of-collection test of read_list and read_dict
IsSentinel(typecode) == typecode = 0

MutUnknownAsNull(r, rest, raw) ==
    Ev("value", VNull, Gen(r, rest \o <<Frame("read_object", "done", raw)>>))

\* the else branch of read_object
UnknownMarker(r, rest, raw) ==
    Outcome("error", "none", 0, "Unknown type marker", raw, Gen(r, <<>>))

\* a scalar branch of read_object: yield 'value', ...
YieldValue(res, t, rest, raw) ==
    IF ~res.ok THEN Raise(res.err, res.rd)
    ELSE Ev("value", Val(t, res.v),
            Gen(res.rd, rest \o <<Frame("read_object", "done", raw)>>))

\* for event in self.read_list() etc.: read_object waits in the frame f
Delegate(rest, raw, f) ==
    rest \o <<Frame("read_object", "deleg", raw), Frame(f, "start", -1)>>

RECURSIVE Resume(_, _)

\* read_object from its typecode on
ReadObjectBody(cx, r, rest, raw) ==
    CASE TypeOf(raw) = 0 ->
            Ev("value", VNull, Gen(r, rest \o <<Frame("read_object", "done", raw)>>))
      [] TypeOf(raw) = 1 -> Resume(cx, Gen(r, Delegate(rest, raw, "read_list")))
      [] TypeOf(raw) = 2 -> Resume(cx, Gen(r, Delegate(rest, raw, "read_dict")))
      [] TypeOf(raw) = 5 ->
            YieldValue(Read(cx.c, cx.data, r, 8), "unknown", rest, raw)
      [] TypeOf(raw) = 6 -> YieldValue(BoolOf(ReadByte(cx, r)), "bool", rest, raw)
      [] TypeOf(raw) = 7 -> YieldValue(ReadBString(cx, r), "str", rest, raw)
      [] TypeOf(raw) = 8 -> YieldValue(ReadSst(cx, r, 4), "i32", rest, raw)
      [] TypeOf(raw) = 9 -> YieldValue(ReadSst(cx, r, 8), "i64", rest, raw)
      [] TypeOf(raw) = 15 -> YieldValue(ReadUuid(cx, r), "uuid", rest, raw)
      [] TypeOf(raw) = 16 ->
            YieldValue(Read(cx.c, cx.data, r, 20), "sha1", rest, raw)
      [] TypeOf(raw) = 19 -> Resume(cx, Gen(r, Delegate(rest, raw, "read_blob")))
      [] OTHER -> UnknownMarker(r, rest, raw)

\* read_object with its typecode t: the one it was given, or the byte read
ObjectOf(cx, rest, read, t) ==
    IF ~t.ok THEN Raise(t.err, t.rd)
    ELSE ReadObjectBody(cx,
                        NoteSeen(IF read THEN NoteMet(t.rd, t.v, Depth(rest)) ELSE t.rd,
                                 t.v, Depth(rest)),
                        rest, t.v)

ResumeObject(cx, g, top, rest) ==
    IF top.pc # "start" THEN Resume(cx, Gen(g.rd, rest))
    ELSE ObjectOf(cx, rest, top.tc < 0,
                  IF top.tc < 0 THEN ReadByte(cx, g.rd) ELSE Ok(top.tc, g.rd))

\* read_list and read_dict up to their first yield; size_info stays in the
\* frame, unused
CollectionStart(e, g, top, rest, size_info) ==
    IF ~size_info.ok THEN Raise(size_info.err, size_info.rd)
    ELSE Ev(e, 0,
            Gen(NoteHint(size_info.rd, g.rd.pos, size_info.rd.pos - g.rd.pos),
                rest \o <<[top EXCEPT !.pc = "loop", !.n = size_info.v]>>))

MutListLoopUsesHint(top, rest, depth, t) ==
    IF ~t.ok THEN Raise(t.err, t.rd)
    ELSE IF IsSentinel(t.v) \/ top.idx >= top.n
    THEN Ev("list_end", 0,
            Gen(NoteMet(t.rd, t.v, depth), rest \o <<[top EXCEPT !.pc = "end"]>>))
    ELSE Ev("list_item", top.idx,
            Gen(NoteMet(t.rd, t.v, depth),
                rest \o <<[top EXCEPT !.pc = "item", !.tc = t.v]>>))

\* one round of the loop of read_list, with the typecode t as read
ListLoop(top, rest, depth, t) ==
    IF ~t.ok THEN Raise(t.err, t.rd)
    ELSE IF IsSentinel(t.v)
    THEN Ev("list_end", 0,
            Gen(NoteMet(t.rd, t.v, depth), rest \o <<[top EXCEPT !.pc = "end"]>>))
    ELSE Ev("list_item", top.idx,
            Gen(NoteMet(t.rd, t.v, depth),
                rest \o <<[top EXCEPT !.pc = "item", !.tc = t.v]>>))

ResumeList(cx, g, top, rest) ==
    CASE top.pc = "start" ->
            CollectionStart("list_start", g, top, rest, ReadVarint(cx, g.rd))
      [] top.pc = "loop" -> ListLoop(top, rest, Depth(g.fr), ReadByte(cx, g.rd))
      [] top.pc = "item" ->
            Resume(cx, Gen(g.rd, rest \o <<[top EXCEPT !.pc = "in_object"],
                                           Frame("read_object", "start", top.tc)>>))
      [] top.pc = "in_object" ->
            Resume(cx, Gen(g.rd, rest \o <<[top EXCEPT !.pc = "loop",
                                                       !.idx = top.idx + 1]>>))
      [] OTHER -> Resume(cx, Gen(g.rd, rest))

\* yield 'dict_key', self.reader.read_cstring()
DictKey(top, rest, tc, key) ==
    IF ~key.ok THEN Raise(key.err, key.rd)
    ELSE Ev("dict_key", key.v,
            Gen(key.rd, rest \o <<[top EXCEPT !.pc = "key", !.tc = tc]>>))

\* one round of the loop of read_dict, with the typecode t as read
DictLoop(cx, top, rest, depth, t) ==
    IF ~t.ok THEN Raise(t.err, t.rd)
    ELSE IF IsSentinel(t.v)
    THEN Ev("dict_end", 0,
            Gen(NoteMet(t.rd, t.v, depth), rest \o <<[top EXCEPT !.pc = "end"]>>))
    ELSE DictKey(top, rest, t.v, ReadCString(cx, NoteMet(t.rd, t.v, depth)))

ResumeDict(cx, g, top, rest) ==
    CASE top.pc = "start" ->
            CollectionStart("dict_start", g, top, rest, ReadVarint(cx, g.rd))
      [] top.pc = "loop" -> DictLoop(cx, top, rest, Depth(g.fr), ReadByte(cx, g.rd))
      [] top.pc = "key" ->
            Resume(cx, Gen(g.rd, rest \o <<[top EXCEPT !.pc = "in_object"],
                                           Frame("read_object", "start", top.tc)>>))
      [] top.pc = "in_object" ->
            Resume(cx, Gen(g.rd, rest \o <<[top EXCEPT !.pc = "loop"]>>))
      [] OTHER -> Resume(cx, Gen(g.rd, rest))

\* yield 'blob_start', to_read
BlobStart(top, rest, to_read) ==
    IF ~to_read.ok THEN Raise(to_read.err, to_read.rd)
    ELSE Ev("blob_start", to_read.v,
            Gen(NoteBlobStart(to_read.rd, to_read.v),
                rest \o <<[top EXCEPT !.pc = "loop", !.n = to_read.v]>>))

\* yield 'blob_chunk', self.reader.read(read_now); to_read -= read_now
BlobChunk(top, rest, read_now, d) ==
    IF ~d.ok THEN Raise(d.err, d.rd)
    ELSE Ev("blob_chunk", d.v,
            Gen(NoteBlobChunk(d.rd, Len(d.v)),
                rest \o <<[top EXCEPT !.n = top.n - read_now]>>))

ResumeBlob(cx, g, top, rest) ==
    CASE top.pc = "start" -> BlobStart(top, rest, ReadVarint(cx, g.rd))
      [] top.pc = "loop" /\ top.n > 0 ->
            BlobChunk(top, rest, Min(top.n, BLOB_CHUNK),
                      Read(cx.c, cx.data, g.rd, Min(top.n, BLOB_CHUNK)))
      [] top.pc = "loop" /\ top.n <= 0 ->
            Ev("blob_end", 0,
               Gen(NoteBlobEnd(g.rd), rest \o <<[top EXCEPT !.pc = "end"]>>))
      [] OTHER -> Resume(cx, Gen(g.rd, rest))

\* the frames of g under its running one
Under(g) == SubSeq(g.fr, 1, Len(g.fr) - 1)

\* iterator.next() on the generator read_object(): run to the next yield
Resume(cx, g) ==
    IF g.fr = <<>> THEN Stop(g)
    ELSE CASE g.fr[Len(g.fr)].f = "read_object" ->
                  ResumeObject(cx, g, g.fr[Len(g.fr)], Under(g))
           [] g.fr[Len(g.fr)].f = "read_list" ->
                  ResumeList(cx, g, g.fr[Len(g.fr)], Under(g))
           [] g.fr[Len(g.fr)].f = "read_dict" ->
                  ResumeDict(cx, g, g.fr[Len(g.fr)], Under(g))
           [] OTHER -> ResumeBlob(cx, g, g.fr[Len(g.fr)], Under(g))

(***************************************************************************)
(* SBParser.make_object, parse, load                                       *)
(***************************************************************************)
RECURSIVE MakeObject(_, _)
RECURSIVE MakeList(_, _, _)
RECURSIVE MakeDict(_, _, _)
RECURSIVE MakeBlob(_, _, _)

\* rv.append(self.make_object(iterator))
ListAppend(cx, rv, m) ==
    IF m.k # "ok" THEN m ELSE MakeList(cx, m.g, Append(rv, m.v))

\* the list_start branch of make_object, for the event e
ListEvent(cx, rv, e) ==
    IF e.k = "stop" THEN Done(VList(rv), e.g)
    ELSE IF e.k # "event" THEN e
    ELSE IF e.e = "list_end" THEN Done(VList(rv), e.g)
    ELSE IF e.e # "list_item" THEN RaiseIn("expected list item", e.g)
    ELSE ListAppend(cx, rv, MakeObject(cx, e.g))

MakeList(cx, g, rv) == ListEvent(cx, rv, Resume(cx, g))

\* rv[key] = value
DictSet(cx, rv, key, m) ==
    IF m.k # "ok" THEN m ELSE MakeDict(cx, m.g, DictPut(rv, key, m.v))

\* the dict_start branch of make_object, for the event e
DictEvent(cx, rv, e) ==
    IF e.k = "stop" THEN Done(VDict(rv), e.g)
    ELSE IF e.k # "event" THEN e
    ELSE IF e.e = "dict_end" THEN Done(VDict(rv), e.g)
    ELSE IF e.e # "dict_key" THEN RaiseIn("expected dict key", e.g)
    ELSE DictSet(cx, rv, e.v, MakeObject(cx, e.g))

MakeDict(cx, g, rv) == DictEvent(cx, rv, Resume(cx, g))

\* the blob_start branch of make_object, for the event e
BlobEvent(cx, rv, e) ==
    IF e.k = "stop" THEN Done(VBlob(rv), e.g)
    ELSE IF e.k # "event" THEN e
    ELSE IF e.e = "blob_end" THEN Done(VBlob(rv), e.g)
    ELSE IF e.e # "blob_chunk" THEN RaiseIn("expected blob chunk", e.g)
    ELSE MakeBlob(cx, e.g, rv \o e.v)

MakeBlob(cx, g, rv) == BlobEvent(cx, rv, Resume(cx, g))

\* make_object once iterator.next() has come back with e
MakeObjectFrom(cx, e) ==
    IF e.k # "event" THEN e
    ELSE CASE e.e = "value" -> Done(e.v, e.g)
           [] e.e = "list_start" -> MakeList(cx, e.g, <<>>)
           [] e.e = "dict_start" -> MakeDict(cx, e.g, EmptyDict)
           [] e.e = "blob_start" -> MakeBlob(cx, e.g, <<>>)
           [] OTHER -> RaiseIn("Unexpected event", e.g)

MakeObject(cx, g) == MakeObjectFrom(cx, Resume(cx, g))

\* the end of parse: gen.next() came back with e
GarbageCheck(rv, e) ==
    IF e.k = "stop" THEN Done(rv.v, e.g)
    ELSE IF e.k = "event" THEN RaiseIn("Garbage left in stream", e.g)
    ELSE e

\* parse once make_object has come back with rv
ParseEnd(cx, rv) ==
    IF rv.k # "ok" THEN rv ELSE GarbageCheck(rv, Resume(cx, rv.g))

\* SBParser(reader).parse()
Parse(cx, r) ==
    ParseEnd(cx, MakeObject(cx, Gen(r, <<Frame("read_object", "start", -1)>>)))

\* load once the reader is constructed, or has failed
LoadWith(c, data, reader) ==
    IF ~reader.ok THEN Raise(reader.err, reader.rd)
    ELSE Parse(Cx(c, data), reader.rd)

\* load(fp): the reader over the file, then parse
Load(c, data) == LoadWith(c, data, ObfInit(data))

(***************************************************************************)
(* Selectors: parse_selector, selector_matches, make_selector_function     *)
(***************************************************************************)
\* str.split(sep)
RECURSIVE Split(_, _)
Split(str, sep) ==
    IF \A i \in 1..Len(str) : str[i] # sep THEN <<str>>
    ELSE LET i == CHOOSE j \in 1..Len(str) :
                      str[j] = sep /\ \A k \in 1..(j - 1) : str[k] # sep
         IN  <<SubSeq(str, 1, i - 1)>> \o Split(SubSeq(str, i + 1, Len(str)), sep)

\* space, \t, \n, \v, \f, \r
Whitespace == {32, 9, 10, 11, 12, 13}
\* str.strip()
RECURSIVE Strip(_)
Strip(str) ==
    IF str = <<>> THEN str
    ELSE IF Head(str) \in Whitespace THEN Strip(Tail(str))
    ELSE IF str[Len(str)] \in Whitespace THEN Strip(SubSeq(str, 1, Len(str) - 1))
    ELSE str

\* str.isdigit()
IsDigit(str) == str # <<>> /\ \A i \in 1..Len(str) : str[i] \in 48..57
\* int(str) of a string of digits
RECURSIVE ToInt(_)
ToInt(str) ==
    IF str = <<>> THEN 0
    ELSE 10 * ToInt(SubSeq(str, 1, Len(str) - 1)) + (str[Len(str)] - 48)

\* the labels of a path stack and the parts of a parsed selector: None, an
\* int or a str
LNone == [t |-> "None", n |-> 0, s |-> <<>>]
LInt(n) == [t |-> "int", n |-> n, s |-> <<>>]
LStr(str) == [t |-> "str", n |-> 0, s |-> str]
\* a != b
LabelNe(a, b) == a # b

STAR == <<42>>
DOT == 46
COMMA == 44

ParseSelector(selector) ==
    LET parts == Split(selector, DOT)
    IN  [i \in 1..Len(parts) |->
            IF parts[i] = STAR THEN LNone
            ELSE IF IsDigit(parts[i]) THEN LInt(ToInt(parts[i]))
            ELSE LStr(parts[i])]

MutMatchesWithoutLength(selector, stack) ==
    \A i \in 1..Min(Len(stack), Len(selector)) :
        ~(selector[i] # LNone /\ LabelNe(selector[i], stack[i]))

SelectorMatches(selector, stack) ==
    IF Len(stack) # Len(selector) THEN FALSE
    ELSE \A i \in 1..Min(Len(stack), Len(selector)) :
            ~(selector[i] # LNone /\ LabelNe(selector[i], stack[i]))

\* the selectors make_selector_function parses out of a string
MakeSelectorFunction(selector) ==
    LET texts == Split(selector, COMMA)
    IN  [i \in 1..Len(texts) |-> ParseSelector(Strip(texts[i]))]

\* selector_func(stack)
SelectorFunc(selectors, stack) ==
    \E i \in 1..Len(selectors) : SelectorMatches(selectors[i], stack)

(***************************************************************************)
(* SBParser.iterparse and iterload: a generator, resumed by next()         *)
(***************************************************************************)
NoIter ==
    [g |-> NoGen, stack |-> <<>>, selectors |-> <<>>, status |-> "none",
     paused |-> FALSE, out |-> <<>>, err |-> "none"]

MutPushNothing(stack) == stack
\* stack.append(None)
StackPush(stack) == Append(stack, LNone)
\* stack[-1] = event_value
StackSetTop(stack, label) == [stack EXCEPT ![Len(stack)] = label]
MutPopNothing(stack) == stack
\* stack.pop()
StackPop(stack) == SubSeq(stack, 1, Len(stack) - 1)

\* the generator ended by an exception (or stuck in a call)
IterRaise(s, k, err) == [s EXCEPT !.status = k, !.err = err]

MutYieldKeepsPosition(s, m) ==
    IF m.k = "ok"
    THEN [s EXCEPT !.out = Append(@, m.v), !.paused = TRUE]
    ELSE IterRaise([s EXCEPT !.g = m.g], m.k, m.err)
\* yield m, the object make_object(chain([event], iterator)) came back with
IterYield(s, m) ==
    IF m.k = "ok"
    THEN [s EXCEPT !.g = m.g, !.out = Append(@, m.v), !.paused = TRUE]
    ELSE IterRaise([s EXCEPT !.g = m.g], m.k, m.err)

\* the body of the for loop of iterparse, for the event e; matched is
\* selector(stack)
IterEvent(cx, s, e, matched) ==
    IF e.e \in {"list_start", "dict_start"} /\ ~matched
    THEN [s EXCEPT !.stack = StackPush(@)]
    ELSE IF e.e \in {"list_item", "dict_key"}
    THEN IF s.stack = <<>> THEN IterRaise(s, "error", "IndexError")
         ELSE [s EXCEPT !.stack = StackSetTop(@, IF e.e = "list_item" THEN LInt(e.v)
                                                  ELSE LStr(e.v))]
    ELSE IF e.e \in {"dict_end", "list_end"}
    THEN IF s.stack = <<>> THEN IterRaise(s, "error", "IndexError")
         ELSE [s EXCEPT !.stack = StackPop(@)]
    ELSE IF matched THEN IterYield(s, MakeObjectFrom(cx, e))
    ELSE s

RECURSIVE IterLoop(_, _)
\* after the body of the loop: on to the next event, unless at a yield
IterOn(cx, n) ==
    IF n.status = "active" /\ ~n.paused THEN IterLoop(cx, n) ELSE n

\* for event in iterator, with e what iterator.next() came back with
IterFor(cx, s, e) ==
    IF e.k = "stop" THEN [s EXCEPT !.g = e.g, !.status = "finished"]
    ELSE IF e.k # "event" THEN IterRaise([s EXCEPT !.g = e.g], e.k, e.err)
    ELSE IterOn(cx, IterEvent(cx, [s EXCEPT !.g = e.g], e,
                              SelectorFunc(s.selectors, s.stack)))

\* for event in iterator: ..., up to the next yield or the end
IterLoop(cx, s) == IterFor(cx, s, Resume(cx, s.g))

\* iterparse once the reader is constructed, or has failed
IterWith(c, data, selector, reader) ==
    IF ~reader.ok THEN IterRaise([NoIter EXCEPT !.g = Gen(reader.rd, <<>>)],
                                 "error", reader.err)
    ELSE IterLoop(Cx(c, data),
                  [NoIter EXCEPT !.g = Gen(reader.rd,
                                           <<Frame("read_object", "start", -1)>>),
                                 !.selectors = MakeSelectorFunction(selector),
                                 !.status = "active"])

\* the first next() on iterload(fp, selector): the reader, the selector
\* function, the generator read_object(), and the loop
IterStart(c, data, selector) == IterWith(c, data, selector, ObfInit(data))

\* a later next()
IterResume(c, data, s) == IterLoop(Cx(c, data), [s EXCEPT !.paused = FALSE])


(***************************************************************************)
(* Obfuscated container files (spec section 6), used as inputs             *)
(***************************************************************************)
Fill(n) == [i \in 1..n |-> 0]

\* payload byte i is stored as plain[i] xor keystream[i mod 257] xor 0x7B
Mask(key, plain) ==
    [i \in 1..Len(plain) |->
        Xor(Xor(plain[i], key[((i - 1) % MAGIC_SIZE) + 1]), MAGIC_XOR)]

\* DICE header, 'x' hash 'x' at 0x08, keystream at 0x128, payload at 0x22C
ObfFile(key, plain) ==
    DICE_HEADER \o Fill(HASH_OFFSET - Len(DICE_HEADER))
        \o <<X_MARK>> \o [i \in 1..HASH_SIZE |-> i % 256] \o <<X_MARK>>
        \o Fill(MAGIC_OFFSET - (HASH_OFFSET + HASH_SIZE + 2))
        \o key
        \o Fill(DATA_OFFSET - (MAGIC_OFFSET + MAGIC_SIZE))
        \o Mask(key, plain)

KeyOf(s) == [j \in 1..MAGIC_SIZE |-> (s * j + 11) % 256]
PlainOf(s, n) == [i \in 1..n |-> (5 * i + s) % 256]

KeySeeds == {7}
PlainSeeds == {1, 4}
PayloadLens == {0, 1, 2}
\* lengths at which an obfuscated file is cut off
CutPoints ==
    {3, 4, HASH_OFFSET, HASH_OFFSET + 1, 100, HASH_OFFSET + HASH_SIZE + 1,
     HASH_OFFSET + HASH_SIZE + 2, MAGIC_OFFSET, 500,
     MAGIC_OFFSET + MAGIC_SIZE - 1, MAGIC_OFFSET + MAGIC_SIZE,
     DATA_OFFSET - 2, DATA_OFFSET - 1, DATA_OFFSET, DATA_OFFSET + 1}
ReadSizes == {0, 1, 2, MAGIC_SIZE - 1}
SeekDeltas == {-1, 1, MAGIC_SIZE - 2}
ReaderClasses == {"DecryptingTypeReader", "SBReader"}

Input(kind, key, plain) == [kind |-> kind, key |-> key, plain |-> plain]
NoLast ==
    [op |-> "none", prev |-> "none", start |-> 0, n |-> 0, how |-> 0,
     ok |-> TRUE, data |-> <<>>, err |-> "none"]

ObfInputs ==
    {<<ObfFile(KeyOf(k), PlainOf(s, n)), Input("obf", KeyOf(k), PlainOf(s, n))>> :
        k \in KeySeeds, s \in PlainSeeds, n \in PayloadLens}
    \cup {<<ObfFile(KeyOf(1), PlainOf(1, MAGIC_SIZE + MaxTail)),
            Input("obf", KeyOf(1), PlainOf(1, MAGIC_SIZE + MaxTail))>>}
CutInputs ==
    {<<SubSeq(ObfFile(KeyOf(1), PlainOf(1, 2)), 1, c),
       Input("cut", KeyOf(1),
             SubSeq(PlainOf(1, 2), 1, Max(0, c - DATA_OFFSET)))>> : c \in CutPoints}
BadMarkInputs ==
    {<<[ObfFile(KeyOf(1), PlainOf(1, 2)) EXCEPT ![at] = 0],
       Input("badmark", KeyOf(1), PlainOf(1, 2))>> :
        at \in {HASH_OFFSET + 1, HASH_OFFSET + HASH_SIZE + 2}}
RawInputs ==
    {<<PlainOf(s, n), Input("raw", <<>>, PlainOf(s, n))>> :
        s \in PlainSeeds, n \in {0, 1, 5}}

InitObf ==
    /\ \E in \in ObfInputs \cup CutInputs \cup BadMarkInputs \cup RawInputs :
          /\ file = in[1]
          /\ ghost = in[2]
    /\ cls \in ReaderClasses
    /\ st = "new"
    /\ rd = NoReader
    /\ last = NoLast
    /\ it = NoIter
    /\ os = NoOs
    /\ heap = NoHeap

\* DecryptingTypeReader(fp) / SBReader(fp)
Construct ==
    /\ st = "new"
    /\ LET res == ObfInit(file)
       IN  /\ st' = IF res.ok THEN "open" ELSE "failed"
           /\ rd' = res.rd
           /\ last' = [NoLast EXCEPT !.op = "init", !.ok = res.ok, !.err = res.err]
    /\ UNCHANGED <<file, cls, it, os, heap, ghost>>

\* reader.read(n); n = -1 is read()
DoRead(n) ==
    /\ st = "open"
    /\ LET res == Read(cls, file, rd, n)
       IN  /\ rd' = res.rd
           /\ last' = [op |-> "read", prev |-> last.op, start |-> rd.pos, n |-> n,
                       how |-> 0, ok |-> res.ok, data |-> res.v, err |-> res.err]
    /\ UNCHANGED <<file, cls, st, it, os, heap, ghost>>

\* reader.seek(delta, how); SBReader has no seek
DoSeek(delta, how) ==
    /\ st = "open"
    /\ cls # "SBReader"
    /\ rd' = IF how \in SeekMethods THEN Seek(rd, delta, how) ELSE rd
    /\ last' = [NoLast EXCEPT !.op = "seek", !.prev = last.op, !.start = rd.pos,
                              !.n = delta, !.how = how,
                              !.ok = how \in SeekMethods,
                              !.err = IF how \in SeekMethods THEN "none"
                                      ELSE "Invalid seek method"]
    /\ UNCHANGED <<file, cls, st, it, os, heap, ghost>>

NextObf ==
    \/ Construct
    \/ \E n \in ReadSizes \cup {-1} : DoRead(n)
    \/ \E delta \in SeekDeltas, how \in {0, 1, 2} : DoSeek(delta, how)

SpecObf == InitObf /\ [][NextObf]_vars


\* the file starts with 00 D1 CE 00
HasDiceHeader == Len(file) >= 4 /\ SubSeq(file, 1, 4) = DICE_HEADER

(***************************************************************************)
(* C1.  Every successful read of an obfuscated file that starts at logical *)
(* payload position p returns out[i] = raw[i] xor K[(p + i) mod 257] xor   *)
(* 0x7B, where raw is taken from file offset 0x22C + p; these are the      *)
(* plaintext bytes p .. p + len of the payload, whatever reads and seeks   *)
(* came before, and the read has the length asked for (all the rest for    *)
(* read(), at most the rest for DecryptingTypeReader.read(n)).             *)
(***************************************************************************)
ObfReadReturnsPlaintext ==
    (st = "open" /\ last.op = "read" /\ last.ok /\ ghost.kind \in {"obf", "cut"}
        /\ HasDiceHeader) =>
        LET p == last.start
            m == Len(last.data)
            raw == SubSeq(file, DATA_OFFSET + p + 1, DATA_OFFSET + p + m)
            rest == Len(ghost.plain) - p
        IN  /\ m = IF last.n < 0 THEN rest
                   ELSE IF cls = "SBReader" THEN last.n
                   ELSE Min(last.n, rest)
            /\ \A i \in 1..m :
                  last.data[i] =
                     Xor(Xor(raw[i], ghost.key[((p + i - 1) % MAGIC_SIZE) + 1]),
                         MAGIC_XOR)
            /\ last.data = SubSeq(ghost.plain, p + 1, p + m)
            /\ rd.pos = p + m

\* a read right after a seek that runs across the end of the keystream
ObfReadWrapsAfterSeek ==
    /\ st = "open" /\ last.op = "read" /\ last.ok /\ rd.keyed
    /\ ghost.kind = "obf"
    /\ last.prev = "seek"
    /\ last.start > 0 /\ last.start < MAGIC_SIZE
    /\ last.start + Len(last.data) > MAGIC_SIZE

(***************************************************************************)
(* C2.  Construction has one of three outcomes: (a) no DICE header: the    *)
(* payload is the whole file, no keystream, limit = file size, reads give  *)
(* the raw bytes; (b) header, both 'x' markers and 257 keystream bytes:    *)
(* payload at 0x22C, limit = number of bytes from 0x22C to the end of the  *)
(* file; (c) header but a marker missing or the keystream cut short: the   *)
(* construction fails.                                                     *)
(***************************************************************************)
HasMarkers ==
    /\ Len(file) >= HASH_OFFSET + HASH_SIZE + 2
    /\ file[HASH_OFFSET + 1] = X_MARK
    /\ file[HASH_OFFSET + HASH_SIZE + 2] = X_MARK
HasKeystream == Len(file) >= MAGIC_OFFSET + MAGIC_SIZE
\* the bytes of the file from 0x22C on
BytesFromDataOffset ==
    IF Len(file) > DATA_OFFSET THEN SubSeq(file, DATA_OFFSET + 1, Len(file)) ELSE <<>>

ObfInitThreeOutcomes ==
    (st # "new") =>
        /\ ~HasDiceHeader =>
              /\ st = "open" /\ ~rd.keyed /\ rd.offset = 0
              /\ rd.limit = Len(file)
              /\ (last.op = "read" /\ last.ok) =>
                    last.data = SubSeq(file, last.start + 1, last.start + Len(last.data))
        /\ (HasDiceHeader /\ HasMarkers /\ HasKeystream) =>
              /\ st = "open" /\ rd.keyed /\ rd.offset = DATA_OFFSET
              /\ rd.magic = SubSeq(file, MAGIC_OFFSET + 1, MAGIC_OFFSET + MAGIC_SIZE)
              /\ rd.limit = Len(BytesFromDataOffset)
        /\ (HasDiceHeader /\ ~(HasMarkers /\ HasKeystream)) => st = "failed"


(***************************************************************************)
(* Decoding a file: load(fp)                                               *)
(***************************************************************************)
\* longest file decoded
MaxLen == 5
\* the bytes the decoded files are made of: null/sentinel, list, dict,
\* opaque-8, bool, string, blob, and a byte that is no typecode (0x1C)
ParseBytes == {0, 1, 2, 5, 6, 7, 19, 28}
ParseFiles == UNION {[1..n -> ParseBytes] : n \in 0..MaxLen}

Result(op, res) ==
    [op |-> op, k |-> res.k, v |-> res.v, err |-> res.err, raw |-> res.raw,
     code |-> res.code]

InitParse ==
    /\ file \in ParseFiles
    /\ cls \in ReaderClasses
    /\ st = "new"
    /\ rd = NoReader
    /\ last = NoLast
    /\ it = NoIter
    /\ os = NoOs
    /\ heap = NoHeap
    /\ ghost = Input("bytes", <<>>, <<>>)

\* load(fp): "done" also stands for a call that raised or never returns
DoLoad ==
    /\ st = "new"
    /\ st' = "done"
    /\ \E res \in {Load(cls, file)} :
           /\ rd' = res.g.rd
           /\ last' = Result("load", res)
    /\ UNCHANGED <<file, cls, it, os, heap, ghost>>

NextParse == DoLoad

SpecParse == InitParse /\ [][NextParse]_vars

Loaded == st = "done" /\ last.op = "load"

\* C3: whenever bytes of the payload remain unconsumed after the one
\* top-level object, load fails with the trailing-data error instead of
\* returning the value.
TrailingDataRejected ==
    (Loaded /\ last.k # "error" /\ rd.pos < rd.limit) =>
        (last.k = "error" /\ last.err = "Garbage left in stream")

\* the file is one value of a fixed-width type whose payload is cut short
ShortFixed ==
    /\ Len(file) >= 1
    /\ \/ TypeOf(file[1]) \in {5, 9} /\ Len(file) - 1 < 8
       \/ TypeOf(file[1]) = 8 /\ Len(file) - 1 < 4
       \/ TypeOf(file[1]) = 15 /\ Len(file) - 1 < 16
       \/ TypeOf(file[1]) = 16 /\ Len(file) - 1 < 20
\* the file is a blob or a string that declares more bytes than follow
ShortCounted ==
    /\ Len(file) >= 2
    /\ TypeOf(file[1]) \in {7, 19}
    /\ file[2] < 128
    /\ Len(file) - 2 < file[2]

\* C4: a load whose input ends before a value's payload is complete fails
\* with the truncation error; it returns no value built from fewer bytes.
TruncatedPayloadFails ==
    (Loaded /\ ~HasDiceHeader /\ (ShortFixed \/ ShortCounted)) =>
        (last.k = "error" /\ last.err = "Unexpected end of file")

\* the two decoded values are equal
RECURSIVE ValEq(_, _)
ValEq(a, b) ==
    /\ a.t = b.t
    /\ CASE a.t = "list" ->
                /\ Len(a.v) = Len(b.v)
                /\ \A i \in 1..Len(a.v) : ValEq(a.v[i], b.v[i])
          [] a.t = "dict" ->
                /\ DOMAIN a.v = DOMAIN b.v
                /\ \A key \in DOMAIN a.v : ValEq(a.v[key], b.v[key])
          [] OTHER -> a.v = b.v

\* the two results are the same outcome: the same value, or the same error
SameResult(a, b) ==
    /\ a.k = b.k
    /\ a.err = b.err
    /\ a.raw = b.raw
    /\ a.k = "ok" => ValEq(a.v, b.v)

\* data with the bytes at index at+1 .. at+len replaced by enc
Replace(data, at, len, enc) ==
    SubSeq(data, 1, at) \o enc \o SubSeq(data, at + len + 1, Len(data))

\* C5: two typecode bytes with equal low 5 bits are treated identically at
\* every place a typecode is read, the 0 sentinel included: giving any
\* typecode byte that was read other flag bits leaves the result of the load
\* unchanged.
FlagBitsIgnored ==
    Loaded =>
        \A m \in rd.h.met : \A flags \in 0..7 :
            LET other == Load(cls, Replace(file, rd.offset + m.at, 1,
                                           <<TypeOf(m.raw) + 32 * flags>>))
            IN  /\ other.k = last.k
                /\ other.err = last.err
                /\ other.code = last.code
                /\ last.k = "ok" => ValEq(other.v, last.v)

\* C6 (as stated): for every byte read as a typecode, at any depth, whose low
\* 5 bits are no known type, the load fails with the unknown-typecode error
\* carrying the raw byte and the masked code, and returns no tree.
UnknownTypecodeMetFails ==
    Loaded =>
        \A m \in rd.h.met :
            TypeOf(m.raw) \notin KnownTypes =>
                /\ last.k = "error"
                /\ last.err = "Unknown type marker"
                /\ last.raw = m.raw
                /\ last.code = TypeOf(m.raw)
                /\ last.v = 0

\* C6 (amended): for every typecode byte handed to read_object (the top-level
\* typecode, a list element's, or that of a dict entry whose key was read in
\* full), at any depth, whose low 5 bits are no known type, the load fails
\* with the unknown-typecode error carrying the raw byte and the masked code,
\* and returns no tree.
UnknownTypecodeFails ==
    Loaded =>
        \A m \in rd.h.seen :
            TypeOf(m.raw) \notin KnownTypes =>
                /\ last.k = "error"
                /\ last.err = "Unknown type marker"
                /\ last.raw = m.raw
                /\ last.code = TypeOf(m.raw)
                /\ last.v = 0

\* an unknown typecode two collections deep made the load fail
UnknownTypecodeNested ==
    /\ Loaded
    /\ last.err = "Unknown type marker"
    /\ \E m \in rd.h.seen : TypeOf(m.raw) \notin KnownTypes /\ m.depth = 2

\* size hints: 0, 1, 2, 127, and the two-byte varints of 128, 255 and 2
HintEncodings == {<<0>>, <<1>>, <<2>>, <<127>>, <<128, 1>>, <<255, 1>>, <<130, 0>>}

\* C7: the result of a load does not depend on the size hint of any list or
\* dict in it (whatever the hint, the collection holds the elements before
\* its 0 sentinel), and a hint followed at once by the sentinel is an empty
\* container.
SizeHintIgnored ==
    Loaded =>
        /\ \A h \in rd.h.hints : \A enc \in HintEncodings :
               SameResult(Load(cls, Replace(file, rd.offset + h.at, h.len, enc)),
                          last)
        /\ (Len(file) >= 3 /\ TypeOf(file[1]) \in {1, 2} /\ file[2] < 128
            /\ file[3] = 0) =>
               /\ last.k = "ok"
               /\ ValEq(last.v, IF TypeOf(file[1]) = 1 THEN VList(<<>>)
                                 ELSE VDict(EmptyDict))

\* a list was decoded whose hint is not the number of its elements
SizeHintInaccurate ==
    /\ Loaded
    /\ last.k = "ok"
    /\ TypeOf(file[1]) = 1
    /\ last.v.t = "list"
    /\ Len(last.v.v) >= 1
    /\ file[2] # Len(last.v.v)

RECURSIVE SumOf(_)
SumOf(lens) == IF lens = <<>> THEN 0 ELSE Head(lens) + SumOf(Tail(lens))

\* C10: for a blob of declared length n, read_blob emits blob_start(n), then
\* chunks each of length 1 to 4096 whose lengths sum to n, then blob_end; the
\* materialized Blob has length n (and so is empty, with no chunk, for n = 0).
BlobChunksSumToDeclared ==
    Loaded =>
        /\ \A i \in 1..Len(rd.h.blobs) :
               LET b == rd.h.blobs[i]
               IN  b.ended =>
                       /\ \A j \in 1..Len(b.chunks) :
                              b.chunks[j] >= 1 /\ b.chunks[j] <= BLOB_CHUNK
                       /\ SumOf(b.chunks) = b.n
        /\ (last.k = "ok" /\ last.v.t = "blob") =>
               Len(last.v.v) = rd.h.blobs[1].n

(***************************************************************************)
(* Matching a selector against a path stack                                *)
(***************************************************************************)
\* most segments of a selector, deepest path stack
MaxSegs == 2
MaxStack == 3

\* the text of a non-negative int
RECURSIVE Digits(_)
Digits(n) == IF n < 10 THEN <<48 + n>> ELSE Digits(n \div 10) \o <<48 + (n % 10)>>

\* a segment as written: '*', a decimal (zeros leading digits of them are
\* zeros put in front) or any other string
SegAny == [t |-> "any", n |-> 0, s |-> <<>>, zeros |-> 0]
SegInt(n, zeros) == [t |-> "int", n |-> n, s |-> <<>>, zeros |-> zeros]
SegStr(str) == [t |-> "str", n |-> 0, s |-> str, zeros |-> 0]
SegText(seg) ==
    CASE seg.t = "any" -> STAR
      [] seg.t = "int" -> [i \in 1..seg.zeros |-> 48] \o Digits(seg.n)
      [] OTHER -> seg.s
\* the segments joined by dots
RECURSIVE SelectorText(_)
SelectorText(segs) ==
    IF Len(segs) = 1 THEN SegText(segs[1])
    ELSE SegText(segs[1]) \o <<DOT>> \o SelectorText(Tail(segs))

SeqsUpTo(S, lo, hi) == UNION {[1..n -> S] : n \in lo..hi}

MatchSegs ==
    {SegAny, SegInt(0, 0), SegInt(1, 0), SegInt(1, 1), SegInt(12, 0),
     SegStr(<<97>>), SegStr(<<>>), SegStr(<<49, 97>>)}
MatchLabels == {LInt(0), LInt(1), LInt(12), LStr(<<97>>), LStr(<<49>>), LStr(<<>>)}

InitSel ==
    /\ file = <<>>
    /\ cls = "DecryptingTypeReader"
    /\ st = "new"
    /\ rd = NoReader
    /\ last = NoLast
    /\ it = NoIter
    /\ os = NoOs
    /\ heap = NoHeap
    /\ \E segs \in SeqsUpTo(MatchSegs, 1, MaxSegs), stack \in SeqsUpTo(MatchLabels, 0, MaxStack) :
           ghost = [kind |-> "selector", segs |-> segs, text |-> SelectorText(segs),
                    stack |-> stack]

\* selector_matches(parse_selector(text), stack)
DoMatch ==
    /\ st = "new"
    /\ st' = "done"
    /\ LET selector == ParseSelector(ghost.text)
       IN  last' = [op |-> "match", selector |-> selector,
                    ok |-> SelectorMatches(selector, ghost.stack)]
    /\ UNCHANGED <<file, cls, rd, it, os, heap, ghost>>

NextSel == DoMatch

SpecSel == InitSel /\ [][NextSel]_vars

\* the labels a segment as written is to match
SegAccepts(seg, label) ==
    \/ seg.t = "any"
    \/ seg.t = "int" /\ label.t = "int" /\ label.n = seg.n
    \/ seg.t = "str" /\ label.t = "str" /\ label.s = seg.s

\* C9: a selector of k segments matches a path stack only when the stack
\* depth is exactly k; at equal depth '*' matches any label, a decimal
\* segment only the equal list index, a string segment only the equal dict key.
SelectorMatchExact ==
    (st = "done" /\ last.op = "match") =>
        /\ Len(last.selector) = Len(ghost.segs)
        /\ last.ok <=>
               /\ Len(ghost.stack) = Len(ghost.segs)
               /\ \A i \in 1..Len(ghost.segs) :
                      SegAccepts(ghost.segs[i], ghost.stack[i])

\* '*' and a decimal written with a leading zero matched a key and an index
SelectorMatchedStarAndIndex ==
    /\ st = "done"
    /\ last.op = "match"
    /\ last.ok
    /\ Len(ghost.segs) = 2
    /\ ghost.segs[1] = SegAny
    /\ ghost.stack[1].t = "str"
    /\ ghost.segs[2] = SegInt(1, 1)

(***************************************************************************)
(* Streaming a well-formed object: iterload(fp, selector)                  *)
(***************************************************************************)
\* deepest nesting of collections, most elements of a collection
MaxDepth == 2
MaxWidth == 2

\* an object as written: a string or blob of bytes b, a list of kids, or a
\* dict whose i-th entry has the key keys[i] and the value kids[i]
TStr(b) == [t |-> "str", b |-> b, keys |-> <<>>, kids |-> <<>>]
TBlob(b) == [t |-> "blob", b |-> b, keys |-> <<>>, kids |-> <<>>]
TList(kids) == [t |-> "list", b |-> <<>>, keys |-> <<>>, kids |-> kids]
TDict(keys, kids) == [t |-> "dict", b |-> <<>>, keys |-> keys, kids |-> kids]
\* a 32-bit integer, b its four bytes
TInt(b) == [t |-> "i32", b |-> b, keys |-> <<>>, kids |-> <<>>]

Scalars == {TStr(<<120>>), TBlob(<<9>>)}
\* the keys "a" and "0"
DictKeys == {<<97>>, <<48>>}
\* sequences of distinct keys
KeySeqs(n) == {ks \in [1..n -> DictKeys] : \A i, j \in 1..n : ks[i] = ks[j] => i = j}

RECURSIVE Trees(_)
Trees(d) ==
    IF d = 0 THEN Scalars
    ELSE LET sub == Trees(d - 1)
         IN  sub \cup {TList(kids) : kids \in SeqsUpTo(sub, 0, MaxWidth)}
                 \cup UNION {{TDict(keys, kids) : keys \in KeySeqs(n), kids \in [1..n -> sub]} :
                                n \in 0..Min(MaxWidth, Cardinality(DictKeys))}

\* the value the object stands for
RECURSIVE ToValue(_)
ToValue(node) ==
    CASE node.t = "list" -> VList([i \in 1..Len(node.kids) |-> ToValue(node.kids[i])])
      [] node.t = "dict" ->
            VDict([key \in {node.keys[i] : i \in 1..Len(node.keys)} |->
                      ToValue(node.kids[CHOOSE i \in 1..Len(node.keys) : node.keys[i] = key])])
      [] node.t = "i32" -> Val("i32", UnpackL(node.b))
      [] OTHER -> Val(node.t, node.b)

\* the bytes of the object: typecode, then payload
TypeCodeOf(node) ==
    CASE node.t = "list" -> 1 [] node.t = "dict" -> 2 [] node.t = "str" -> 7
      [] node.t = "i32" -> 8
      [] OTHER -> 19
RECURSIVE PayloadOf(_, _)
RECURSIVE EntriesFrom(_, _, _)
EntriesFrom(node, i, hint) ==
    IF i > Len(node.kids) THEN <<0>>
    ELSE <<TypeCodeOf(node.kids[i])>>
             \o (IF node.t = "dict" THEN node.keys[i] \o <<0>> ELSE <<>>)
             \o PayloadOf(node.kids[i], hint) \o EntriesFrom(node, i + 1, hint)
PayloadOf(node, hint) ==
    CASE node.t \in {"list", "dict"} -> hint \o EntriesFrom(node, 1, hint)
      [] node.t = "str" -> <<Len(node.b) + 1>> \o node.b \o <<0>>
      [] node.t = "i32" -> node.b
      [] OTHER -> <<Len(node.b)>> \o node.b
Encode(node, hint) == <<TypeCodeOf(node)>> \o PayloadOf(node, hint)

StreamSegs == {SegAny, SegInt(0, 0), SegInt(1, 0), SegStr(<<97>>)}
StreamSelectors ==
    SeqsUpTo(StreamSegs, 1, MaxDepth) \cup {[i \in 1..(MaxDepth + 1) |-> SegAny]}
\* the size hint written in front of every collection, whatever it holds
StreamHints == {<<2>>}

InitStream ==
    /\ cls = "DecryptingTypeReader"
    /\ st = "new"
    /\ rd = NoReader
    /\ last = NoLast
    /\ it = NoIter
    /\ os = NoOs
    /\ heap = NoHeap
    /\ \E tree \in Trees(MaxDepth), segs \in StreamSelectors, hint \in StreamHints :
           /\ file = Encode(tree, hint)
           /\ ghost = [kind |-> "tree", tree |-> tree, segs |-> segs,
                       text |-> SelectorText(segs), hint |-> hint]

\* next() on the generator iterload(fp, selector)
IterNext ==
    /\ st \in {"new", "iter"}
    /\ it.status \in {"none", "active"}
    /\ st' = "iter"
    /\ it' = IF it.status = "none" THEN IterStart(cls, file, ghost.text)
             ELSE IterResume(cls, file, it)
    /\ rd' = it'.g.rd
    /\ UNCHANGED <<file, cls, last, os, heap, ghost>>

NextStream == DoLoad \/ IterNext

SpecStream == InitStream /\ [][NextStream]_vars

\* the subtrees of node at the paths the segments accept, in document order
RECURSIVE Select(_, _)
RECURSIVE SelectFrom(_, _, _)
SelectFrom(node, segs, i) ==
    IF i > Len(node.kids) THEN <<>>
    ELSE LET accepted == IF node.t = "list" THEN SegAccepts(segs[1], LInt(i - 1))
                         ELSE SegAccepts(segs[1], LStr(node.keys[i]))
             here == IF ~accepted THEN <<>>
                     ELSE IF Len(segs) = 1 THEN <<node.kids[i]>>
                     ELSE Select(node.kids[i], Tail(segs))
         IN  here \o SelectFrom(node, segs, i + 1)
Select(node, segs) == SelectFrom(node, segs, 1)

\* C8: for a well-formed object and a single dotted selector, iterload
\* yields, in document order, exactly the subtrees that load of the same
\* bytes holds at the paths matching the selector, each equal to that subtree.
StreamYieldsSelected ==
    LET expected == Select(ghost.tree, ghost.segs)
    IN  /\ st = "iter" =>
               /\ it.status \in {"active", "finished"}
               /\ it.status = "active" => it.paused
               /\ Len(it.out) <= Len(expected)
               /\ \A i \in 1..Len(it.out) : ValEq(it.out[i], ToValue(expected[i]))
               /\ it.status = "finished" => Len(it.out) = Len(expected)
        /\ Loaded => last.k = "ok" /\ ValEq(last.v, ToValue(ghost.tree))

\* "a.*" over a dict of two entries yielded the two elements under "a"
StreamSkippedSibling ==
    /\ st = "iter"
    /\ it.status = "finished"
    /\ Len(it.out) = 2
    /\ ghost.segs = <<SegStr(<<97>>), SegAny>>
    /\ ghost.tree.t = "dict"
    /\ Len(ghost.tree.kids) = 2


(***************************************************************************)
(* The primitives on their own: read_varint and read_bstring called one    *)
(* after the other on a reader over a plain file                           *)
(***************************************************************************)
\* longest file of which every content is tried
MaxPrimLen == 3
\* longest run of continuation bytes tried
MaxCont == 11
\* terminators and small lengths, a letter, continuation bytes without and
\* with payload bits
PrimBytes == {0, 1, 2, 3, 65, 128, 129}
ShortFiles == UNION {[1..n -> PrimBytes] : n \in 0..MaxPrimLen}
\* k continuation bytes, then nothing, a terminator, or a terminator and
\* one more byte
LongVarints ==
    {[i \in 1..k |-> IF i = 1 THEN first ELSE 128] \o tail :
        k \in 1..MaxCont, first \in {128, 129}, tail \in {<<>>, <<0>>, <<0, 7>>}}

InitPrim ==
    /\ file \in ShortFiles \cup LongVarints
    /\ cls \in ReaderClasses
    /\ st = "new"
    /\ rd = NoReader
    /\ last = NoLast
    /\ it = NoIter
    /\ os = NoOs
    /\ heap = NoHeap
    /\ ghost = Input("bytes", <<>>, <<>>)

\* what a primitive came back with; n holds an integer result, data a string
PrimResult(op, res, n, data) ==
    [op |-> op, prev |-> last.op, start |-> rd.pos, n |-> n, how |-> 0,
     ok |-> res.ok, data |-> data, err |-> res.err]

\* reader.read_varint(); an exception ends the use of the reader
DoVarint ==
    /\ st = "open"
    /\ \E res \in {ReadVarint(Cx(cls, file), rd)} :
           /\ rd' = res.rd
           /\ last' = PrimResult("read_varint", res, IF res.ok THEN res.v ELSE 0, <<>>)
           /\ st' = IF res.ok THEN "open" ELSE "failed"
    /\ UNCHANGED <<file, cls, it, os, heap, ghost>>

\* reader.read_bstring()
DoBString ==
    /\ st = "open"
    /\ \E res \in {ReadBString(Cx(cls, file), rd)} :
           /\ rd' = res.rd
           /\ last' = PrimResult("read_bstring", res, 0, res.v)
           /\ st' = IF res.ok THEN "open" ELSE "failed"
    /\ UNCHANGED <<file, cls, it, os, heap, ghost>>

NextPrim == Construct \/ DoVarint \/ DoBString

SpecPrim == InitPrim /\ [][NextPrim]_vars

\* payload byte i (from 0) of the file, counted from where the last call began
ByteFrom(i) == file[rd.offset + last.start + i + 1]
\* the bytes of the payload from where the last call began
LeftFrom == rd.limit - last.start
\* the first i from 0 at which the byte has its top bit clear (LeftFrom if none)
FirstStop ==
    IF \E i \in 0..(LeftFrom - 1) : ByteFrom(i) < 128
    THEN CHOOSE i \in 0..(LeftFrom - 1) :
             /\ ByteFrom(i) < 128
             /\ \A j \in 0..(i - 1) : ByteFrom(j) >= 128
    ELSE LeftFrom

\* C11: an encoding longer than 10 bytes is rejected: when the 11 bytes from
\* where read_varint begins all have the continuation bit set, read_varint
\* fails, and has consumed no more than those bytes.
VarintLongRejected ==
    (last.op = "read_varint" /\ LeftFrom >= 11
        /\ \A i \in 0..10 : ByteFrom(i) >= 128) =>
        (~last.ok /\ rd.pos - last.start <= 11)

RECURSIVE GroupSum(_)
\* sum over i = 0..m of (b_i AND 0x7F) * 2^(7i)
GroupSum(m) ==
    (IF m = 0 THEN 0 ELSE GroupSum(m - 1)) + Shl(ByteFrom(m) % 128, 7 * m)

\* the bytes b0..bm with k groups of padding: bm gets the continuation bit,
\* then k - 1 bytes 0x80 and the byte 0x00 follow
Padded(m, k) ==
    [i \in 1..(m + 1 + k) |->
        IF i <= m THEN ByteFrom(i - 1)
        ELSE IF i = m + 1 THEN 128 + (ByteFrom(m) % 128)
        ELSE IF i < m + 1 + k THEN 128
        ELSE 0]

\* longest padding tried
MaxPad == 2

ReaderBefore == [rd EXCEPT !.pos = last.start, !.cur = rd.offset + last.start]

\* C13: read_bstring reads a varint n, then exactly n bytes; it fails unless
\* n >= 1 and the last of the n bytes is 0x00, and else returns the first
\* n - 1 bytes and leaves the reader right after the n-th byte.
BStringExact ==
    (last.op = "read_bstring") =>
        LET len == ReadVarint(Cx(cls, file), ReaderBefore)
            p == len.rd.pos
            n == len.v
            whole == len.ok /\ n >= 1 /\ p + n <= rd.limit
                        /\ file[rd.offset + p + n] = 0
        IN  /\ last.ok <=> whole
            /\ last.ok =>
                  /\ last.data = SubSeq(file, rd.offset + p + 1, rd.offset + p + n - 1)
                  /\ rd.pos = p + n


(***************************************************************************)
(* A bounded reader on its own: TypeReader(fp, limit) and                  *)
(* BundleFileStream(fp, limit) over a file whose cursor is at base         *)
(***************************************************************************)
\* longest underlying file, and largest limit and base offset beyond it
MaxFile == 4
BoundedClasses == {"TypeReader", "BundleFileStream"}
\* a file of n bytes, all different
Numbered(n) == [i \in 1..n |-> 10 + i]
BoundedReads == {-1, 0, 1, 2, MaxFile + 1}
BoundedDeltas == {-1, 0, 1, 2, MaxFile + 2}

\* the reader right after TypeReader(fp, limit) with fp.tell() = base
InitBounded ==
    /\ \E n \in 0..MaxFile : file = Numbered(n)
    /\ cls \in BoundedClasses
    /\ st = "open"
    /\ \E base \in 0..(MaxFile + 1), limit \in 0..(MaxFile + 1) :
           rd = NewReader(base, limit, FALSE, <<>>)
    /\ last = NoLast
    /\ it = NoIter
    /\ os = NoOs
    /\ heap = NoHeap
    /\ ghost = Input("bounded", <<>>, <<>>)

NextBounded ==
    \/ \E n \in BoundedReads : DoRead(n)
    \/ \E delta \in BoundedDeltas, how \in 0..3 : DoSeek(delta, how)

SpecBounded == InitBounded /\ [][NextBounded]_vars

\* v clamped into [0, limit]
Clamped(v) == Max(0, Min(v, rd.limit))

\* C14: for a bounded reader with limit L, after any reads and seeks:
\* 0 <= pos <= L, tell() is pos, eof holds exactly when pos >= L; a
\* successful read(n) returns exactly min(n, L - pos) bytes (all L - pos for
\* read()), taken from the underlying offsets base + pos onward, and advances
\* pos by that amount; a seek clamps its target into [0, L] and leaves the
\* underlying file at base + pos; no read returns a byte outside
\* [base, base + L).
BoundedReaderKeepsBounds ==
    /\ 0 <= rd.pos /\ rd.pos <= rd.limit
    /\ Tell(rd) = rd.pos
    /\ Eof(rd) <=> rd.pos = rd.limit
    /\ (last.op = "read" /\ last.ok) =>
          LET m == IF last.n < 0 THEN rd.limit - last.start
                   ELSE Min(last.n, rd.limit - last.start)
          IN  /\ Len(last.data) = m
              /\ rd.pos = last.start + m
              /\ m > 0 => rd.offset + last.start + m <= Len(file)
              /\ last.data = SubSeq(file, rd.offset + last.start + 1,
                                    rd.offset + last.start + m)
              /\ last.start + m <= rd.limit
    /\ (last.op = "seek" /\ last.ok) =>
          /\ last.how = 0 => rd.pos = Clamped(last.n)
          /\ last.how = 1 => rd.pos = Clamped(last.start + last.n)
          /\ rd.cur = rd.offset + rd.pos
    /\ (last.op = "seek" /\ ~last.ok) => rd.pos = last.start

\* a read that asked for more than is left below the limit came right after
\* a seek past the limit; the region lies inside the file, not at its start
\* and not up to its end
BoundedReadCutAtLimit ==
    /\ last.op = "read" /\ last.ok /\ last.prev = "seek"
    /\ rd.offset > 0
    /\ rd.offset + rd.limit < Len(file)
    /\ last.n > Len(last.data)
    /\ Len(last.data) > 0
    /\ rd.pos = rd.limit


(***************************************************************************)
(* Files: the disk by file name, open file descriptions (each with its     *)
(* offset), and descriptors on them.  A Python file object made by open()  *)
(* has a description of its own; one made by os.fdopen(os.dup(fd)) shares  *)
(* the description, and so the offset, of fd.                              *)
(***************************************************************************)
\* a file name beside the catalog: '<stem>_<num><ext>', '<stem><ext>' when
\* num is empty
Name(stem, num, ext) == [stem |-> stem, num |-> num, ext |-> ext]

\* os.path.isfile(name)
IsFile(o, name) == name \in DOMAIN o.disk

\* open(name, 'rb')
OsOpen(o, name) ==
    [o EXCEPT !.ofd = Append(@, [name |-> name, off |-> 0]),
              !.fd = Append(@, [ofd |-> Len(o.ofd) + 1, open |-> TRUE])]

\* os.fdopen(os.dup(f.fileno()))
OsDup(o, f) == [o EXCEPT !.fd = Append(@, [ofd |-> o.fd[f].ofd, open |-> TRUE])]

\* f.close()
OsClose(o, f) == [o EXCEPT !.fd[f].open = FALSE]

MutCloseOnReturnOnly(o, f, returned) == IF returned THEN OsClose(o, f) ELSE o

\* the exit of `with ... as f`: f is closed, whether the body returned or
\* raised
WithExit(o, f, returned) == OsClose(o, f)

\* f.tell()
Offset(o, f) == o.ofd[o.fd[f].ofd].off

\* f.seek(off)
OsSeek(o, f, off) == [o EXCEPT !.ofd[o.fd[f].ofd].off = off]

\* the bytes of the file that f is open on
Content(o, f) == o.disk[o.ofd[o.fd[f].ofd].name]

\* the file objects still open
OpenFiles(o) == {f \in 1..Len(o.fd) : o.fd[f].open}

(***************************************************************************)
(* CASFile, BundleFile and their open()                                    *)
(***************************************************************************)
\* a CASFile (kind "cas"; fp = 0 stands for fp = None) or a BundleFile (kind
\* "bundle"); owner is the stem of the catalog's file name (self.cat), the
\* basename of the bundle (self.bundle)
FileRecord(kind, owner, key, offset, size, cas_num, fp) ==
    [kind |-> kind, owner |-> owner, key |-> key, offset |-> offset,
     size |-> size, cas_num |-> cas_num, fp |-> fp]

MutFmtNoPad(num) == IF num < 0 THEN <<45>> \o Digits(-num) ELSE Digits(num)

\* '%02d' % num
Fmt02d(num) ==
    IF num < 0 THEN <<45>> \o Digits(-num)
    ELSE IF num < 10 THEN <<48>> \o Digits(num)
    ELSE Digits(num)

\* a reader and the file object it reads
Handle(f, r) == [f |-> f, r |-> r]
NoHandle == Handle(0, NoReader)

\* what open_cas (a file object f) or open() (a reader h) comes back with
Opened(ok, err, o, f) == [ok |-> ok, err |-> err, os |-> o, f |-> f, h |-> NoHandle]

\* CASCatalog.open_cas(num) for the catalog '<stem>.cat': libfb2 returns None
\* (f = 0) when the shard is missing, libsb lets open() raise
OpenCas(c, o, stem, num) ==
    IF IsFile(o, Name(stem, Fmt02d(num), ".cas"))
    THEN Opened(TRUE, "none", OsOpen(o, Name(stem, Fmt02d(num), ".cas")),
                Len(o.fd) + 1)
    ELSE IF c = "TypeReader" THEN Opened(TRUE, "none", o, 0)
    ELSE Opened(FALSE, "IOError: No such file or directory", o, 0)

\* BundleFile.open: open(self.bundle.basename + '.sb', 'rb')
OpenSb(o, basename) ==
    IF IsFile(o, Name(basename, <<>>, ".sb"))
    THEN Opened(TRUE, "none", OsOpen(o, Name(basename, <<>>, ".sb")), Len(o.fd) + 1)
    ELSE Opened(FALSE, "IOError: No such file or directory", o, 0)

\* the first statement of open(): the file object f
OpenUnderlying(c, o, rec) ==
    IF rec.kind = "bundle" THEN OpenSb(o, rec.owner)
    ELSE IF rec.fp # 0 THEN Opened(TRUE, "none", OsDup(o, rec.fp), Len(o.fd) + 1)
    ELSE OpenCas(c, o, rec.owner, rec.cas_num)

\* f.seek(self.offset); return TypeReader(f, self.size)
SeekAndWrap(got, rec) ==
    IF ~got.ok THEN got
    ELSE IF got.f = 0
    THEN Opened(FALSE, "AttributeError: 'NoneType' object has no attribute 'seek'",
                got.os, 0)
    ELSE IF rec.offset < 0
    THEN Opened(FALSE, "IOError: Invalid argument", got.os, got.f)
    ELSE [Opened(TRUE, "none", OsSeek(got.os, got.f, rec.offset), got.f)
             EXCEPT !.h = Handle(got.f, NewReader(rec.offset, rec.size, FALSE, <<>>))]

\* CASFile.open() / BundleFile.open()
OpenRecord(c, o, rec) == SeekAndWrap(OpenUnderlying(c, o, rec), rec)

\* the reader of handle h with the offset its file has now
AtOffset(o, h) == [h.r EXCEPT !.cur = Offset(o, h.f)]


(***************************************************************************)
(* Readers opened from file records, used in any interleaving              *)
(***************************************************************************)
\* length of the files on disk
MaxShard == 4
\* open() calls made
MaxReaders == 2
\* a file of n bytes, all different, and different from file to file
Bytes(seed, n) == [i \in 1..n |-> seed + i]

\* two shards beside cas.cat (cas_03.cas is missing) and the file ui.sb
OpenDisk ==
    (Name("cas", <<48, 49>>, ".cas") :> Bytes(10, MaxShard))
        @@ (Name("cas", <<49, 50>>, ".cas") :> Bytes(40, MaxShard))
        @@ (Name("ui", <<>>, ".sb") :> Bytes(70, MaxShard))

\* file object 1 is the one a sequential scan of cas_01.cas holds open
OpenOs == OsOpen([disk |-> OpenDisk, ofd |-> <<>>, fd |-> <<>>],
                 Name("cas", <<48, 49>>, ".cas"))

OpenOffsets == {0, 2}
OpenSizes == {2}
\* records of a catalog, of a scan (with the live file object) and of a bundle
CatalogRecords ==
    {FileRecord("cas", "cas", <<>>, offset, size, num, 0) :
        offset \in OpenOffsets, size \in OpenSizes, num \in {1, 12, 3}}
        \cup {FileRecord("cas", "cas", <<>>, -1, 2, 1, 0)}
LiveRecords ==
    {FileRecord("cas", "", <<>>, offset, size, -1, 1) :
        offset \in OpenOffsets, size \in OpenSizes}
BundleRecords ==
    {FileRecord("bundle", "ui", <<>>, offset, size, -1, 0) :
        offset \in OpenOffsets, size \in OpenSizes}
OpenRecords == CatalogRecords \cup LiveRecords \cup BundleRecords

\* the file a record lies in: the scanned shard for a record with a live
\* file object
ExpectedFile(rec) ==
    IF rec.kind = "bundle" THEN Name(rec.owner, <<>>, ".sb")
    ELSE IF rec.fp # 0 THEN Name("cas", <<48, 49>>, ".cas")
    ELSE Name(rec.owner, <<48 + (rec.cas_num \div 10), 48 + (rec.cas_num % 10)>>,
              ".cas")

NoOpenLast ==
    [op |-> "none", who |-> 0, rec |-> 0, start |-> 0, n |-> 0, how |-> 0,
     ok |-> TRUE, data |-> <<>>, err |-> "none", alone_ok |-> TRUE,
     alone_data |-> <<>>]

InitOpen ==
    /\ file = <<>>
    /\ cls \in BoundedClasses
    /\ st = "open"
    /\ rd = NoReader
    /\ last = NoOpenLast
    /\ it = NoIter
    /\ os = OpenOs
    /\ \E one \in OpenRecords, two \in OpenRecords :
           /\ ExpectedFile(one) = ExpectedFile(two)
           /\ heap = [kind |-> "files", recs |-> <<one, two>>, opens |-> 0,
                      readers |-> <<>>]
    /\ ghost = Input("files", <<>>, <<>>)

\* the reader r as kept with its handle: the offset is the file's
Kept(r) == [r EXCEPT !.cur = 0]

\* reader = record.open(); alone is the same reader with a file of its own
DoOpen(j) ==
    /\ heap.opens < MaxReaders
    /\ \E res \in {OpenRecord(cls, os, heap.recs[j])} :
           /\ os' = res.os
           /\ heap' = IF res.ok
                      THEN [heap EXCEPT !.opens = @ + 1,
                                        !.readers =
                               Append(@, [rec |-> j, alone |-> res.h.r,
                                          h |-> Handle(res.h.f, Kept(res.h.r))])]
                      ELSE [heap EXCEPT !.opens = @ + 1]
           /\ last' = [NoOpenLast EXCEPT !.op = "open", !.rec = j, !.ok = res.ok,
                                         !.err = res.err,
                                         !.who = IF res.ok THEN Len(heap.readers) + 1
                                                 ELSE 0]
    /\ UNCHANGED <<file, cls, st, rd, it, ghost>>

\* readers[i].read(n); n = -1 is read()
DoReaderRead(i, n) ==
    /\ i \in 1..Len(heap.readers)
    /\ \E res \in {Read(cls, Content(os, heap.readers[i].h.f),
                        AtOffset(os, heap.readers[i].h), n)},
          alone \in {Read(cls, Content(os, heap.readers[i].h.f),
                          heap.readers[i].alone, n)} :
           /\ os' = OsSeek(os, heap.readers[i].h.f, res.rd.cur)
           /\ heap' = [heap EXCEPT !.readers[i].h.r = Kept(res.rd),
                                   !.readers[i].alone = alone.rd]
           /\ last' = [NoOpenLast EXCEPT !.op = "read", !.who = i, !.n = n,
                                         !.start = heap.readers[i].h.r.pos,
                                         !.rec = heap.readers[i].rec,
                                         !.ok = res.ok, !.data = res.v,
                                         !.err = res.err, !.alone_ok = alone.ok,
                                         !.alone_data = alone.v]
    /\ UNCHANGED <<file, cls, st, rd, it, ghost>>

\* readers[i].seek(delta, how)
DoReaderSeek(i, delta, how) ==
    /\ i \in 1..Len(heap.readers)
    /\ \E r \in {Seek(AtOffset(os, heap.readers[i].h), delta, how)} :
           /\ os' = OsSeek(os, heap.readers[i].h.f, r.cur)
           /\ heap' = [heap EXCEPT !.readers[i].h.r = Kept(r),
                                   !.readers[i].alone =
                                       Seek(heap.readers[i].alone, delta, how)]
           /\ last' = [NoOpenLast EXCEPT !.op = "seek", !.who = i, !.n = delta,
                                         !.rec = heap.readers[i].rec, !.how = how]
    /\ UNCHANGED <<file, cls, st, rd, it, ghost>>

NextOpen ==
    \/ \E j \in 1..2 : DoOpen(j)
    \/ \E i \in 1..MaxReaders, n \in {-1, 1} : DoReaderRead(i, n)
    \/ \E i \in 1..MaxReaders, delta \in {0, 1}, how \in SeekMethods :
           DoReaderSeek(i, delta, how)

SpecOpen == InitOpen /\ [][NextOpen]_vars

\* C15: readers from open() calls do not share a file cursor: in every
\* interleaving of the reads and seeks of two readers, each read gives the
\* reader what the same calls give it when it is used alone (the same
\* bytes, or the same failure), whether its record is catalog-backed or
\* carries a live file handle.
ReadersIndependent ==
    (last.op = "read") =>
        /\ last.ok = last.alone_ok
        /\ last.ok => last.data = last.alone_data

\* the record the last call was made on
LastRecord == heap.recs[last.rec]
\* the record is one of a catalog or a bundle, its file is on disk, and its
\* offset is an offset
Registered(rec) ==
    /\ rec.fp = 0
    /\ rec.offset >= 0
    /\ IsFile(os, ExpectedFile(rec))

\* C17: for a record registered by a catalog or a bundle, open() returns a
\* reader with pos = 0 and limit = the recorded size, whose file (the shard
\* '<stem>_<NN>.cas', the bundle's '.sb') is at the recorded offset; two
\* open() calls on the same record read the same bytes: whichever reader of
\* the record reads, at position p it gets the bytes of that file at the
\* recorded offset + p.
OpenGivesRecordedRegion ==
    /\ (last.op = "open" /\ Registered(LastRecord)) =>
          /\ last.ok
          /\ LET h == heap.readers[last.who].h
             IN  /\ h.r.pos = 0
                 /\ h.r.limit = LastRecord.size
                 /\ os.fd[h.f].open
                 /\ os.ofd[os.fd[h.f].ofd].name = ExpectedFile(LastRecord)
                 /\ Offset(os, h.f) = LastRecord.offset
                 /\ h.r.offset = LastRecord.offset
    /\ (last.op = "read" /\ last.ok /\ Registered(LastRecord)) =>
          last.data = SubSeq(os.disk[ExpectedFile(LastRecord)],
                             LastRecord.offset + last.start + 1,
                             LastRecord.offset + last.start + Len(last.data))

\* the second of two readers opened on the same record of cas_12.cas has
\* read the bytes at the recorded offset, after the first one read
OpenedTwiceAndRead ==
    /\ Len(heap.readers) = 2
    /\ heap.recs[1] = heap.recs[2]
    /\ heap.recs[1].cas_num = 12 /\ heap.recs[1].offset = 2
    /\ heap.readers[1].h.r.pos > 0
    /\ last.op = "read" /\ last.ok /\ last.who = 2 /\ last.start = 0
    /\ last.data = <<43, 44>>


(***************************************************************************)
(* CASCatalog: construction from a .cat file, and get_file                 *)
(***************************************************************************)
CAS_CAT_HEADER == <<78, 121, 97, 110, 78, 121, 97, 110, 78, 121, 97, 110, 78, 121, 97, 110>>
SHA1_SIZE == 20

\* one digit of bytes.encode('hex')
HexDigit(n) == IF n < 10 THEN 48 + n ELSE 87 + n
\* SHA1.hex: self.bytes.encode('hex')
Hex(bytes) ==
    [i \in 1..(2 * Len(bytes)) |->
        IF i % 2 = 1 THEN HexDigit(bytes[(i + 1) \div 2] \div 16)
        ELSE HexDigit(bytes[i \div 2] % 16)]

\* no CASFile: None
NoRecord == FileRecord("none", "", <<>>, 0, 0, 0, 0)

RECURSIVE CatLoop(_, _, _, _)
\* self.files[sha1.hex] = CASFile(sha1, offset, size, cas_num, cat=self)
CatStore(cx, stem, files, sha1, offset, size, cas_num) ==
    IF ~cas_num.ok THEN cas_num
    ELSE CatLoop(cx, stem, cas_num.rd,
                 DictPut(files, Hex(sha1),
                         FileRecord("cas", stem, sha1, offset, size, cas_num.v, 0)))
\* cas_num = reader.read_sst('i')
CatNum(cx, stem, files, sha1, offset, size) ==
    IF ~size.ok THEN size
    ELSE CatStore(cx, stem, files, sha1, offset, size.v, ReadSst(cx, size.rd, 4))
\* size = reader.read_sst('i')
CatSize(cx, stem, files, sha1, offset) ==
    IF ~offset.ok THEN offset
    ELSE CatNum(cx, stem, files, sha1, offset.v, ReadSst(cx, offset.rd, 4))
\* offset = reader.read_sst('i')
CatOffset(cx, stem, files, sha1) ==
    IF ~sha1.ok THEN sha1
    ELSE CatSize(cx, stem, files, sha1.v, ReadSst(cx, sha1.rd, 4))
\* while not reader.eof: sha1 = SHA1(reader.read(20)) ...
CatLoop(cx, stem, r, files) ==
    IF Eof(r) THEN Ok(files, r)
    ELSE CatOffset(cx, stem, files, Read(cx.c, cx.data, r, SHA1_SIZE))

\* header = reader.read(len(CAS_CAT_HEADER)) and the check of it
CatHeader(cx, stem, header) ==
    IF ~header.ok THEN header
    ELSE IF header.v # CAS_CAT_HEADER THEN Fail("Not a cas cat file", header.rd)
    ELSE CatLoop(cx, stem, header.rd, EmptyDict)

\* the body of the with block, given the reader
CatRead(cx, stem, reader) ==
    IF ~reader.ok THEN reader
    ELSE CatHeader(cx, stem, Read(cx.c, cx.data, reader.rd, Len(CAS_CAT_HEADER)))

\* CASCatalog.__init__ on '<stem>.cat': self.files, or the exception
CatalogOf(c, data, stem) == CatRead(Cx(c, data), stem, ObfInit(data))

\* get_file(sha1), key a hex string or a SHA1 value.  libfb2 goes by
\* sha1.hex and returns None when absent; libsb indexes self.files with the
\* argument as it is, and a SHA1 value equals no str key.
GetFile(c, files, key) ==
    IF c = "SBReader" THEN
        IF key.form = "hex" /\ key.s \in DOMAIN files
        THEN [ok |-> TRUE, err |-> "none", v |-> files[key.s]]
        ELSE [ok |-> FALSE, err |-> "KeyError", v |-> NoRecord]
    ELSE IF (IF key.form = "sha1" THEN Hex(key.s) ELSE key.s) \in DOMAIN files
    THEN [ok |-> TRUE, err |-> "none",
          v |-> files[IF key.form = "sha1" THEN Hex(key.s) ELSE key.s]]
    ELSE [ok |-> TRUE, err |-> "none", v |-> NoRecord]

(***************************************************************************)
(* Catalog files (spec section 6), used as inputs                          *)
(***************************************************************************)
\* records in a catalog
MaxRecords == 2
\* four bytes, little-endian, of a signed 32-bit integer
I32(n) ==
    <<n % 256, (n \div 256) % 256, (n \div 65536) % 256, (n \div 16777216) % 256>>
ShaOf(seed) == [i \in 1..SHA1_SIZE |-> (16 * seed + i - 1) % 256]
CatRecord(seed, offset, size, num) ==
    [sha1 |-> ShaOf(seed), offset |-> offset, size |-> size, cas_num |-> num]
\* record := sha1(20) offset(i32 LE) size(i32 LE) cas_num(i32 LE)
CatRecordBytes(rec) ==
    rec.sha1 \o I32(rec.offset) \o I32(rec.size) \o I32(rec.cas_num)
RECURSIVE CatPayload(_)
CatPayload(recs) ==
    IF recs = <<>> THEN CAS_CAT_HEADER
    ELSE CatPayload(SubSeq(recs, 1, Len(recs) - 1)) \o CatRecordBytes(recs[Len(recs)])

CatShaSeeds == {0, 1}
CatFields == {<<256, 512, 3>>, <<-1, 0, 12>>}
CatRecords == {CatRecord(seed, f[1], f[2], f[3]) : seed \in CatShaSeeds, f \in CatFields}
CatRecordSeqs == UNION {[1..n -> CatRecords] : n \in 0..MaxRecords}
\* payloads: as specified; with another first byte; shorter than the
\* header; with the last record cut short
CatPayloads ==
    {[kind |-> "good", recs |-> recs, plain |-> CatPayload(recs)] :
        recs \in CatRecordSeqs}
    \cup {[kind |-> "badheader", recs |-> recs,
            plain |-> [CatPayload(recs) EXCEPT ![1] = 110]] : recs \in CatRecordSeqs}
    \cup {[kind |-> "short", recs |-> <<>>, plain |-> SubSeq(CAS_CAT_HEADER, 1, n)] :
            n \in {0, 15}}
    \cup {[kind |-> "cutrecord", recs |-> recs,
            plain |-> SubSeq(CatPayload(recs), 1, Len(CatPayload(recs)) - cut)] :
            recs \in [1..1 -> CatRecords], cut \in {1, 14}}

CatName == Name("cas", <<>>, ".cat")
NoKey == [form |-> "none", s |-> <<>>]
NoCatLast == [op |-> "none", key |-> NoKey, ok |-> TRUE, err |-> "none", v |-> NoRecord]

InitCat ==
    /\ \E in \in CatPayloads, obf \in BOOLEAN :
           /\ file = IF obf THEN ObfFile(KeyOf(7), in.plain) ELSE in.plain
           /\ ghost = in
    /\ cls \in ReaderClasses
    /\ st = "new"
    /\ rd = NoReader
    /\ last = NoCatLast
    /\ it = NoIter
    /\ os = [disk |-> (CatName :> file), ofd |-> <<>>, fd |-> <<>>]
    /\ heap = [kind |-> "cat", files |-> EmptyDict]

\* the end of the with block: the file is closed, however the body ended
CatalogClosed(o, f, res) == WithExit(OsSeek(o, f, res.rd.cur), f, res.ok)

\* CASCatalog(filename)
DoCatalog ==
    /\ st = "new"
    /\ \E res \in {CatalogOf(cls, os.disk[CatName], "cas")} :
           /\ st' = IF res.ok THEN "built" ELSE "failed"
           /\ os' = CatalogClosed(OsOpen(os, CatName), Len(os.fd) + 1, res)
           /\ heap' = IF res.ok THEN [heap EXCEPT !.files = res.v] ELSE heap
           /\ rd' = res.rd
           /\ last' = [NoCatLast EXCEPT !.op = "init", !.ok = res.ok, !.err = res.err]
    /\ UNCHANGED <<file, cls, it, ghost>>

\* the arguments of get_file: hex strings and SHA1 values, of a SHA-1 that
\* may be in the catalog and of one that is in none
CatKeys ==
    {[form |-> "hex", s |-> Hex(ShaOf(seed))] : seed \in CatShaSeeds \cup {2}}
    \cup {[form |-> "sha1", s |-> ShaOf(seed)] : seed \in CatShaSeeds \cup {2}}

\* catalog.get_file(key)
DoGetFile(key) ==
    /\ st = "built"
    /\ \E res \in {GetFile(cls, heap.files, key)} :
           last' = [NoCatLast EXCEPT !.op = "get_file", !.key = key, !.ok = res.ok,
                                    !.err = res.err, !.v = res.v]
    /\ UNCHANGED <<file, cls, st, rd, it, os, heap, ghost>>

NextCat == DoCatalog \/ \E key \in CatKeys : DoGetFile(key)

SpecCat == InitCat /\ [][NextCat]_vars

\* the hex form of the SHA-1 that key stands for
HexOfKey(key) == IF key.form = "sha1" THEN Hex(key.s) ELSE key.s

\* C16: for a payload of the header 'NyanNyanNyanNyan' and complete 32-byte
\* records, construction stores one CASFile per distinct SHA-1, keyed by its
\* hex form, with a record's offset, size and cas_num; get_file by hex string
\* and by SHA1 value return the same CASFile, and none for a SHA-1 that is in
\* no record; a payload with other first 16 bytes fails construction.
CatalogIndexesRecords ==
    /\ (st # "new" /\ ghost.kind = "good") =>
          /\ st = "built"
          /\ DOMAIN heap.files =
                 {Hex(ghost.recs[i].sha1) : i \in 1..Len(ghost.recs)}
          /\ \A h \in DOMAIN heap.files :
                 \E i \in 1..Len(ghost.recs) :
                     /\ h = Hex(ghost.recs[i].sha1)
                     /\ heap.files[h].key = ghost.recs[i].sha1
                     /\ heap.files[h].offset = ghost.recs[i].offset
                     /\ heap.files[h].size = ghost.recs[i].size
                     /\ heap.files[h].cas_num = ghost.recs[i].cas_num
    /\ (st # "new" /\ ghost.kind \in {"badheader", "short"}) => st = "failed"
    /\ (last.op = "get_file") =>
          /\ last.ok
          /\ last.v = IF HexOfKey(last.key) \in DOMAIN heap.files
                      THEN heap.files[HexOfKey(last.key)]
                      ELSE NoRecord


(***************************************************************************)
(* Bundle                                                                  *)
(***************************************************************************)
\* the strings 'bundles', 'id', 'offset', 'size'
STR_BUNDLES == <<98, 117, 110, 100, 108, 101, 115>>
STR_ID == <<105, 100>>
STR_OFFSET == <<111, 102, 102, 115, 101, 116>>
STR_SIZE == <<115, 105, 122, 101>>

\* what the construction comes back with: the bundle's root and
\* bundle_files, or an exception
BundleResult(ok, err, root, files) ==
    [ok |-> ok, err |-> err, root |-> root, files |-> files]

\* BundleFile(self, **bundle): the keywords are to be exactly id, offset and
\* size
BundleFileOf(basename, bundle) ==
    IF DOMAIN bundle # {STR_ID, STR_OFFSET, STR_SIZE}
    THEN [ok |-> FALSE, err |-> "TypeError: __init__() arguments", v |-> NoRecord]
    ELSE [ok |-> TRUE, err |-> "none",
          v |-> FileRecord("bundle", basename, bundle[STR_ID].v, bundle[STR_OFFSET].v,
                           bundle[STR_SIZE].v, -1, 0)]

\* for bundle in self.root['bundles'], from the i-th entry on; the entries
\* are dicts
RECURSIVE BundleLoop(_, _, _, _, _)
BundleRegister(basename, root, bundles, i, files, bf) ==
    IF ~bf.ok THEN BundleResult(FALSE, bf.err, root, files)
    ELSE BundleLoop(basename, root, bundles, i + 1, DictPut(files, bf.v.key, bf.v))
BundleLoop(basename, root, bundles, i, files) ==
    IF i > Len(bundles) THEN BundleResult(TRUE, "none", root, files)
    ELSE CASE bundles[i].t = "dict" ->
            IF STR_SIZE \in DOMAIN bundles[i].v /\ STR_OFFSET \in DOMAIN bundles[i].v
            THEN BundleRegister(basename, root, bundles, i, files,
                                BundleFileOf(basename, bundles[i].v))
            ELSE BundleLoop(basename, root, bundles, i + 1, files)

\* Bundle.__init__ once load has come back with res; root is a dict and
\* root['bundles'] a list
BundleFrom(basename, res) ==
    IF res.k # "ok" THEN BundleResult(FALSE, res.err, VNull, EmptyDict)
    ELSE CASE res.v.t = "dict" ->
            IF STR_BUNDLES \notin DOMAIN res.v.v
            THEN BundleResult(FALSE, "KeyError: 'bundles'", VNull, EmptyDict)
            ELSE CASE res.v.v[STR_BUNDLES].t = "list" ->
                    BundleLoop(basename, res.v, res.v.v[STR_BUNDLES].v, 1, EmptyDict)

\* Bundle(basename) over the bytes of basename + '.toc'
BundleOf(c, data, basename) == BundleFrom(basename, Load(c, data))

\* bundle.get_file(id)
BundleGetFile(c, files, id) ==
    IF id \in DOMAIN files THEN [ok |-> TRUE, err |-> "none", v |-> files[id]]
    ELSE IF c = "SBReader" THEN [ok |-> FALSE, err |-> "KeyError", v |-> NoRecord]
    ELSE [ok |-> TRUE, err |-> "none", v |-> NoRecord]

\* most entries of a 'bundles' list
MaxEntries == 2
STR_DELTA == <<100, 101, 108, 116, 97>>
\* the keys an entry is written with
EntryKeySets ==
    {{STR_ID, STR_OFFSET, STR_SIZE}, {STR_ID}, {STR_ID, STR_OFFSET}, {STR_ID, STR_SIZE},
     {STR_ID, STR_OFFSET, STR_SIZE, STR_DELTA}, {STR_OFFSET, STR_SIZE}, {STR_DELTA}}
EntryOffsets == {0, 16}
EntrySize == 4
\* the i-th entry has the id 'a', 'b', ...
EntriesAt(i) ==
    {[keys |-> ks, id |-> <<96 + i>>, offset |-> off, size |-> EntrySize] :
        ks \in EntryKeySets, off \in EntryOffsets}
EntrySeqs ==
    UNION {{es \in [1..n -> UNION {EntriesAt(i) : i \in 1..n}] :
               \A i \in 1..n : es[i] \in EntriesAt(i)} : n \in 0..MaxEntries}

\* an entry as written: its keys in the order id, offset, size, delta
KeyOrder == <<STR_ID, STR_OFFSET, STR_SIZE, STR_DELTA>>
RECURSIVE KeysFrom(_, _)
KeysFrom(ks, i) ==
    IF i > Len(KeyOrder) THEN <<>>
    ELSE (IF KeyOrder[i] \in ks THEN <<KeyOrder[i]>> ELSE <<>>) \o KeysFrom(ks, i + 1)
EntryField(e, key) ==
    CASE key = STR_ID -> TStr(e.id)
      [] key = STR_OFFSET -> TInt(I32(e.offset))
      [] key = STR_SIZE -> TInt(I32(e.size))
      [] OTHER -> TBlob(<<9>>)
EntryTree(e) ==
    TDict(KeysFrom(e.keys, 1),
          [i \in 1..Len(KeysFrom(e.keys, 1)) |-> EntryField(e, KeysFrom(e.keys, 1)[i])])
\* a TOC: a dict with a name and the list 'bundles'
TocTree(es) ==
    TDict(<<<<110>>, STR_BUNDLES>>,
          <<TStr(<<117, 105>>), TList([i \in 1..Len(es) |-> EntryTree(es[i])])>>)
TocBytes(es) == Encode(TocTree(es), <<0>>)
\* TOCs as specified; one without 'bundles'; one cut short
TocInputs ==
    {[kind |-> "toc", entries |-> es, plain |-> TocBytes(es)] : es \in EntrySeqs}
    \cup {[kind |-> "nobundles", entries |-> <<>>,
           plain |-> Encode(TDict(<<<<110>>>>, <<TStr(<<117, 105>>)>>), <<0>>)]}
    \cup {[kind |-> "cut", entries |-> es,
           plain |-> SubSeq(TocBytes(es), 1, Len(TocBytes(es)) - 3)] :
            es \in {es \in EntrySeqs : Len(es) = 1}}

TocName == Name("ui", <<>>, ".toc")
NoBundleLast == [op |-> "none", id |-> <<>>, ok |-> TRUE, err |-> "none", v |-> NoRecord]

InitBundle ==
    /\ \E in \in TocInputs :
           /\ file = in.plain
           /\ ghost = in
    /\ cls \in ReaderClasses
    /\ st = "new"
    /\ rd = NoReader
    /\ last = NoBundleLast
    /\ it = NoIter
    /\ os = [disk |-> (TocName :> file), ofd |-> <<>>, fd |-> <<>>]
    /\ heap = [kind |-> "bundle", root |-> VNull, files |-> EmptyDict]

\* Bundle(basename); load closes the file it opened
DoBundle ==
    /\ st = "new"
    /\ \E res \in {BundleOf(cls, os.disk[TocName], "ui")} :
           /\ st' = IF res.ok THEN "built" ELSE "failed"
           /\ heap' = IF res.ok THEN [heap EXCEPT !.root = res.root, !.files = res.files]
                      ELSE heap
           /\ last' = [NoBundleLast EXCEPT !.op = "init", !.ok = res.ok, !.err = res.err]
    /\ os' = OsClose(OsOpen(os, TocName), Len(os.fd) + 1)
    /\ UNCHANGED <<file, cls, rd, it, ghost>>

BundleIds == {<<97>>, <<98>>, <<99>>}

\* bundle.get_file(id)
DoBundleGetFile(id) ==
    /\ st = "built"
    /\ \E res \in {BundleGetFile(cls, heap.files, id)} :
           last' = [NoBundleLast EXCEPT !.op = "get_file", !.id = id, !.ok = res.ok,
                                       !.err = res.err, !.v = res.v]
    /\ UNCHANGED <<file, cls, st, rd, it, os, heap, ghost>>

NextBundle == DoBundle \/ \E id \in BundleIds : DoBundleGetFile(id)

SpecBundle == InitBundle /\ [][NextBundle]_vars

\* the entry has both 'offset' and 'size'
HasRegion(e) == STR_OFFSET \in e.keys /\ STR_SIZE \in e.keys

\* C18: after Bundle construction from a TOC whose top-level dict has a
\* 'bundles' list of dicts, whatever other keys the entries carry: for each
\* entry with both 'offset' and 'size' the registered map holds under the
\* entry's id a BundleFile with that id, offset and size; no entry lacking
\* 'offset' or 'size' is registered; every entry is still present in root.
BundleRegistersEntries ==
    (/\ st # "new"
     /\ ghost.kind = "toc"
     /\ \A i \in 1..Len(ghost.entries) : STR_ID \in ghost.entries[i].keys) =>
       /\ st = "built"
       /\ \A i \in 1..Len(ghost.entries) :
             HasRegion(ghost.entries[i]) =>
                /\ ghost.entries[i].id \in DOMAIN heap.files
                /\ heap.files[ghost.entries[i].id] =
                      FileRecord("bundle", "ui", ghost.entries[i].id,
                                 ghost.entries[i].offset, ghost.entries[i].size, -1, 0)
       /\ \A id \in DOMAIN heap.files :
             \E i \in 1..Len(ghost.entries) :
                 ghost.entries[i].id = id /\ HasRegion(ghost.entries[i])
       /\ Len(heap.root.v[STR_BUNDLES].v) = Len(ghost.entries)
       /\ \A i \in 1..Len(ghost.entries) :
             DOMAIN heap.root.v[STR_BUNDLES].v[i].v = ghost.entries[i].keys


(***************************************************************************)
(* Scanning a shard without the catalog: iter_cas_file, CASFileReader      *)
(***************************************************************************)
CAS_HEADER == <<250, 206, 15, 240>>

\* f.read(n) of the file object f: the bytes read, and the offset moved past
\* them
OsRead(o, f, n) ==
    [v |-> FileRead(Content(o, f), Offset(o, f), n),
     os |-> OsSeek(o, f, Offset(o, f) + Len(FileRead(Content(o, f), Offset(o, f), n)))]

\* CASFileReader.read(length): self._fp.read(length or -1)
ScanRead(o, f, length) == OsRead(o, f, IF length = 0 THEN -1 ELSE length)

\* what a step of the scan comes back with: a CASFile (k = "file"), the end
\* of the shard (k = "eof") or an exception (k = "error")
ScanOut(k, err, o, v) == [k |-> k, err |-> err, os |-> o, v |-> v]

\* rv = CASFile(sha1, self._fp.tell(), data_length, fp=self._fp);
\* self._fp.seek(data_length, 1)
ScanPad(f, sha1, data_length, p) ==
    IF Offset(p.os, f) + data_length < 0
    THEN ScanOut("error", "IOError: Invalid argument", p.os, NoRecord)
    ELSE ScanOut("file", "none", OsSeek(p.os, f, Offset(p.os, f) + data_length),
                 FileRecord("cas", "", sha1, Offset(p.os, f), data_length, -1, f))

\* data_length = self.read_sst('i'); padding = self.read(4)
ScanLen(f, sha1, d) ==
    IF Len(d.v) # 4 THEN ScanOut("error", "struct.error", d.os, NoRecord)
    ELSE ScanPad(f, sha1, UnpackL(d.v), ScanRead(d.os, f, 4))

\* sha1 = SHA1(self.read(20))
ScanSha(f, s) == ScanLen(f, s.v, ScanRead(s.os, f, 4))

\* the header check
ScanHeader(f, h) ==
    IF h.v = <<>> THEN ScanOut("eof", "EOFError", h.os, NoRecord)
    ELSE IF h.v # CAS_HEADER
    THEN ScanOut("error", "ValueError: Expected cas header", h.os, NoRecord)
    ELSE ScanSha(f, ScanRead(h.os, f, SHA1_SIZE))

\* CASFileReader.get_next_file
GetNextFile(o, f) == ScanHeader(f, ScanRead(o, f, 4))

\* the first step of the generator iter_cas_file(filename): the with block
\* opens the file, header = self.read(4) names self, which the function does
\* not have, and the with block closes the file
IterCasFileNext(o, name) ==
    ScanOut("error", "NameError: global name 'self' is not defined",
            OsClose(OsOpen(o, name), Len(o.fd) + 1), NoRecord)

\* iter_cas_file of libfb2 (TypeReader) and CASFileReader of libsb
ScanClasses == {"TypeReader", "CASFileReader"}

\* most records of a shard
MaxScan == 2
ScanSizes == {0, 1, 3}
ScanRecords == {[sha1 |-> ShaOf(seed), size |-> n] : seed \in {0, 1}, n \in ScanSizes}
ScanRecordSeqs == UNION {[1..k -> ScanRecords] : k \in 0..MaxScan}
\* [fa ce 0f f0 | sha1 | size | pad | payload]
ScanRecordBytes(r) ==
    CAS_HEADER \o r.sha1 \o I32(r.size) \o <<0, 0, 0, 0>> \o [i \in 1..r.size |-> 64 + i]
RECURSIVE ShardFrom(_, _)
ShardFrom(recs, j) ==
    IF j > Len(recs) THEN <<>> ELSE ScanRecordBytes(recs[j]) \o ShardFrom(recs, j + 1)
\* where the payload of the j-th record starts
RECURSIVE PayloadStart(_, _)
PayloadStart(recs, j) ==
    IF j = 1 THEN 32 ELSE PayloadStart(recs, j - 1) + recs[j - 1].size + 32
\* shards as specified; with the header of the record bad changed or cut to
\* two bytes
ScanInputs ==
    {[kind |-> "good", recs |-> recs, bad |-> 0, plain |-> ShardFrom(recs, 1)] :
        recs \in ScanRecordSeqs}
    \cup UNION {{[kind |-> "badheader", recs |-> recs, bad |-> j,
                  plain |-> [ShardFrom(recs, 1) EXCEPT ![PayloadStart(recs, j) - 31] = 251]] :
                    j \in 1..Len(recs)} : recs \in ScanRecordSeqs}
    \cup {[kind |-> "badheader", recs |-> recs, bad |-> Len(recs) + 1,
           plain |-> ShardFrom(recs, 1) \o <<250, 206>>] : recs \in ScanRecordSeqs}

ShardName == Name("cas", <<48, 49>>, ".cas")
NoScanLast == [op |-> "none", k |-> "none", err |-> "none", v |-> NoRecord]

InitScan ==
    /\ \E in \in ScanInputs :
           /\ file = in.plain
           /\ ghost = in
    /\ cls \in ScanClasses
    /\ st = "new"
    /\ rd = NoReader
    /\ last = NoScanLast
    /\ it = NoIter
    /\ os = [disk |-> (ShardName :> file), ofd |-> <<>>, fd |-> <<>>]
    /\ heap = [kind |-> "scan", f |-> 0, found |-> <<>>]

\* iter_cas_file(filename) makes a generator that has not started;
\* CASFileReader(filename) opens the file
DoScanOpen ==
    /\ st = "new"
    /\ st' = "iter"
    /\ os' = IF cls = "CASFileReader" THEN OsOpen(os, ShardName) ELSE os
    /\ heap' = [heap EXCEPT !.f = IF cls = "CASFileReader" THEN Len(os.fd) + 1 ELSE 0]
    /\ last' = [NoScanLast EXCEPT !.op = "scan"]
    /\ UNCHANGED <<file, cls, rd, it, ghost>>

\* the next step of the iteration
DoScanNext ==
    /\ st = "iter"
    /\ \E out \in {IF cls = "CASFileReader" THEN GetNextFile(os, heap.f)
                   ELSE IterCasFileNext(os, ShardName)} :
           /\ st' = CASE out.k = "file" -> "iter" [] out.k = "eof" -> "done"
                      [] OTHER -> "failed"
           /\ os' = out.os
           /\ heap' = IF out.k = "file" THEN [heap EXCEPT !.found = Append(@, out.v)]
                      ELSE heap
           /\ last' = [NoScanLast EXCEPT !.op = "next", !.k = out.k, !.err = out.err,
                                       !.v = out.v]
    /\ UNCHANGED <<file, cls, rd, it, ghost>>

NextScan == DoScanOpen \/ DoScanNext

SpecScan == InitScan /\ [][NextScan]_vars

\* C19: scanning a shard of k records [fa ce 0f f0 | sha1 | size | pad |
\* payload] yields exactly k CASFiles in file order, the j-th with that
\* record's sha1, its size field, and as offset the position right after its
\* 32-byte header; the scan ends at the first zero-length read at a record
\* boundary; a non-empty header other than fa ce 0f f0 raises an error.
ScanYieldsRecords ==
    /\ Len(heap.found) <= Len(ghost.recs)
    /\ \A j \in 1..Len(heap.found) :
          /\ heap.found[j].key = ghost.recs[j].sha1
          /\ heap.found[j].size = ghost.recs[j].size
          /\ heap.found[j].offset = PayloadStart(ghost.recs, j)
    /\ ghost.kind = "good" =>
          /\ st # "failed"
          /\ st = "done" => Len(heap.found) = Len(ghost.recs)
          /\ (st = "iter" /\ last.op = "next") =>
                Offset(os, heap.f) = PayloadStart(ghost.recs, Len(heap.found) + 1) - 32
    /\ ghost.kind = "badheader" =>
          /\ st # "done"
          /\ Len(heap.found) < ghost.bad


(***************************************************************************)
(* The files an operation opens: load, iterload, get_raw_contents,         *)
(* get_parsed_contents by file name or file record                         *)
(***************************************************************************)
\* how an operation ended ("ok", "error", or "hang" when it never does) and
\* the open files it leaves
OpOut(k, err, o) == [k |-> k, err |-> err, os |-> o]

\* the class of the readers open() returns, in the library of the reader c
FileClassOf(c) == IF c = "SBReader" THEN "BundleFileStream" ELSE "TypeReader"

\* the constructor of the reader raised: SBReader closes the file it opened
\* (_fail_init), the file of DecryptingTypeReader is closed by the with block
ReaderFailed(c, o, f) == IF c = "SBReader" THEN OsClose(o, f) ELSE WithExit(o, f, FALSE)

\* the end of load: parse came back with res
LoadParsed(o, f, res) ==
    IF res.k = "hang" THEN OpOut("hang", res.err, o)
    ELSE OpOut(res.k, res.err, WithExit(o, f, res.k = "ok"))

LoadReader(c, data, o, f, reader) ==
    IF ~reader.ok THEN OpOut("error", reader.err, ReaderFailed(c, o, f))
    ELSE LoadParsed(o, f, Parse(Cx(c, data), reader.rd))

\* load(filename)
LoadFile(c, o, name) ==
    IF ~IsFile(o, name) THEN OpOut("error", "IOError: No such file or directory", o)
    ELSE LoadReader(c, o.disk[name], OsOpen(o, name), Len(o.fd) + 1, ObfInit(o.disk[name]))

\* a step of the generator iterload(filename, selector) that came back with
\* the iteration s: the file stays open at a yield
IterStepped(o, f, s) ==
    [it |-> s, f |-> f,
     os |-> IF s.status \in {"active", "hang"} THEN o
            ELSE WithExit(o, f, s.status = "finished")]

IterReader(c, data, selector, o, f, reader) ==
    IF ~reader.ok
    THEN [it |-> IterWith(c, data, selector, reader), f |-> f, os |-> ReaderFailed(c, o, f)]
    ELSE IterStepped(o, f, IterWith(c, data, selector, reader))

\* the first next(): the with block opens the file
IterOpen(c, o, name, selector) ==
    IF ~IsFile(o, name)
    THEN [it |-> IterRaise(NoIter, "error", "IOError: No such file or directory"),
          f |-> 0, os |-> o]
    ELSE IterReader(c, o.disk[name], selector, OsOpen(o, name), Len(o.fd) + 1,
                    ObfInit(o.disk[name]))

\* the generator is dropped: GeneratorExit is raised at the yield it waits
\* at, if it waits at one
IterDropped(o, f, s) == IF s.status = "active" THEN WithExit(o, f, FALSE) ELSE o

\* the end of get_raw_contents: f.read() came back with res
RawEnd(got, res) ==
    OpOut(IF res.ok THEN "ok" ELSE "error", res.err, WithExit(got.os, got.h.f, res.ok))

\* get_raw_contents once self.open() has come back with got
RawBody(c, got) ==
    IF ~got.ok THEN OpOut("error", got.err, got.os)
    ELSE RawEnd(got, Read(FileClassOf(c), Content(got.os, got.h.f), got.h.r, -1))

\* rec.get_raw_contents()
RawContents(c, o, rec) == RawBody(c, OpenRecord(FileClassOf(c), o, rec))

\* the bytes the reader of rec has: size bytes of the file from offset on
Region(data, rec) ==
    SubSeq(data, rec.offset + 1, Min(rec.offset + rec.size, Len(data)))

\* the end of get_parsed_contents: load(f) came back with res
ParsedEnd(got, res) ==
    IF res.k = "hang" THEN OpOut("hang", res.err, got.os)
    ELSE OpOut(res.k, res.err, WithExit(got.os, got.h.f, res.k = "ok"))

ParsedBody(c, got, rec) ==
    IF ~got.ok THEN OpOut("error", got.err, got.os)
    ELSE ParsedEnd(got, Load(c, Region(Content(got.os, got.h.f), rec)))

\* rec.get_parsed_contents(); cached: self._parsed_contents is not None
ParsedContents(c, o, rec, cached) ==
    IF cached THEN OpOut("ok", "none", o)
    ELSE ParsedBody(c, OpenRecord(FileClassOf(c), o, rec), rec)

\* most files opened in a run
MaxOpens == 3
\* objects: a list of two strings, a dict, each also cut short; an unknown
\* typecode; a string without its delimiter; an obfuscated list; a DICE
\* header with nothing after it
GoodList == Encode(TList(<<TStr(<<120>>), TStr(<<121>>)>>), <<2>>)
GoodDict == Encode(TDict(<<<<97>>>>, <<TStr(<<120>>)>>), <<2>>)
CloseFiles ==
    {GoodList, GoodDict, ObfFile(KeyOf(7), GoodList), DICE_HEADER,
     <<1, 2, 30, 0>>, <<7, 2, 120, 121>>}
    \cup {SubSeq(d, 1, Len(d) - cut) : d \in {GoodList, GoodDict}, cut \in {1, 3}}
UiSb == Name("ui", <<>>, ".sb")
Cas03 == Name("cas", <<48, 51>>, ".cas")
\* a catalog of two files, the second in a shard that is missing; one with
\* another header; one with its last record cut
CloseCatalogs(data) ==
    {CatPayload(<<CatRecord(0, 0, Len(data), 3), CatRecord(1, 0, 2, 12)>>),
     [CatPayload(<<>>) EXCEPT ![1] = 110],
     SubSeq(CatPayload(<<CatRecord(0, 0, Len(data), 3)>>), 1, 40)}
CloseNames == {UiSb, Name("no", <<>>, ".sb")}
\* BundleFiles of ui.sb: the whole file, and the file from its second byte
CloseBundleFiles(data) ==
    {FileRecord("bundle", "ui", <<>>, off, Len(data) - off, -1, 0) :
        off \in {0, Min(1, Len(data))}}

InitClose ==
    /\ file \in CloseFiles
    /\ cls \in ReaderClasses
    /\ st = "new"
    /\ rd = NoReader
    /\ last = NoCatLast
    /\ it = NoIter
    /\ \E cat \in CloseCatalogs(file) :
           os = [disk |-> (CatName :> cat) @@ (UiSb :> file) @@ (Cas03 :> file),
                 ofd |-> <<>>, fd |-> <<>>]
    /\ heap = [kind |-> "close", files |-> EmptyDict, cached |-> {}, f |-> 0]
    /\ ghost = Input("files", <<>>, <<>>)

\* the operation came back with out (or never does)
Finished(op, out) ==
    /\ st' = IF out.k = "hang" THEN "hung" ELSE st
    /\ os' = out.os
    /\ last' = [NoCatLast EXCEPT !.op = op, !.ok = (out.k = "ok"), !.err = out.err]

Idle == st \in {"built", "failed"} /\ Len(os.fd) < MaxOpens

\* load(filename)
DoLoadFile(name) ==
    /\ Idle
    /\ \E out \in {LoadFile(cls, os, name)} : Finished("load", out)
    /\ UNCHANGED <<file, cls, rd, it, heap, ghost>>

\* gen = iterload(filename, selector): nothing runs yet
DoIterload ==
    /\ Idle
    /\ it.status \in {"none", "closed"}
    /\ it' = [NoIter EXCEPT !.status = "made"]
    /\ last' = [NoCatLast EXCEPT !.op = "iterload"]
    /\ UNCHANGED <<file, cls, st, rd, os, heap, ghost>>

\* gen.next()
DoIterStep(name) ==
    /\ st \in {"built", "failed"}
    /\ \/ it.status = "made" /\ Len(os.fd) < MaxOpens
       \/ it.status = "active" /\ name = UiSb
    /\ \E res \in {IF it.status = "made"
                   THEN IterOpen(cls, os, name, SelectorText(<<SegAny>>))
                   ELSE IterStepped(os, heap.f, IterResume(cls, Content(os, heap.f), it))} :
           /\ it' = res.it
           /\ os' = res.os
           /\ heap' = [heap EXCEPT !.f = res.f]
           /\ st' = IF res.it.status = "hang" THEN "hung" ELSE st
           /\ last' = [NoCatLast EXCEPT !.op = "next",
                                       !.ok = (res.it.status \in {"active", "finished"}),
                                       !.err = res.it.err]
    /\ UNCHANGED <<file, cls, rd, ghost>>

\* the generator is given up: del gen, or gen.close()
DoIterDrop ==
    /\ st \in {"built", "failed"}
    /\ it.status \in {"made", "active", "finished", "error"}
    /\ os' = IterDropped(os, heap.f, it)
    /\ it' = [it EXCEPT !.status = "closed"]
    /\ last' = [NoCatLast EXCEPT !.op = "drop"]
    /\ UNCHANGED <<file, cls, st, rd, heap, ghost>>

\* the file records at hand: the BundleFiles of ui.sb and the CASFiles of
\* the catalog
CloseRecords == CloseBundleFiles(file) \cup {heap.files[h] : h \in DOMAIN heap.files}

\* rec.get_raw_contents()
DoRawContents(rec) ==
    /\ Idle
    /\ \E out \in {RawContents(cls, os, rec)} : Finished("get_raw_contents", out)
    /\ UNCHANGED <<file, cls, rd, it, heap, ghost>>

\* rec.get_parsed_contents()
DoParsedContents(rec) ==
    /\ Idle
    /\ \E out \in {ParsedContents(cls, os, rec, rec \in heap.cached)} :
           /\ Finished("get_parsed_contents", out)
           /\ heap' = IF out.k = "ok" THEN [heap EXCEPT !.cached = @ \cup {rec}] ELSE heap
    /\ UNCHANGED <<file, cls, rd, it, ghost>>

NextClose ==
    \/ DoCatalog
    \/ \E name \in CloseNames : DoLoadFile(name)
    \/ DoIterload
    \/ \E name \in CloseNames : DoIterStep(name)
    \/ DoIterDrop
    \/ \E rec \in CloseRecords : DoRawContents(rec)
    \/ \E rec \in CloseRecords : DoParsedContents(rec)

SpecClose == InitClose /\ [][NextClose]_vars

ReaderOf(c, data) ==
    IF c = "TypeReader" THEN Ok(0, NewReader(0, Len(data), FALSE, <<>>))
    ELSE ObfInit(data)

TruncClasses == ReaderClasses \cup {"TypeReader"}
\* the objects cut: all of depth 1, and a dict in a list
TruncTrees == Trees(1) \cup {TList(<<TDict(<<<<97>>>>, <<TStr(<<120>>)>>)>>)}
\* the objects also written obfuscated
TruncObfTrees == {TStr(<<120>>), TDict(<<<<97>>>>, <<TStr(<<120>>)>>)}
TruncSelectors == {<<SegAny>>, <<SegStr(<<97>>)>>, <<SegAny, SegAny>>}
TruncInputs ==
    UNION {{[kind |-> "plain", tree |-> tree, cut |-> Len(Encode(tree, <<2>>)) - n,
             plain |-> SubSeq(Encode(tree, <<2>>), 1, n)] :
               n \in 0..Len(Encode(tree, <<2>>))} : tree \in TruncTrees}
    \cup UNION {{[kind |-> "obf", tree |-> tree, cut |-> Len(Encode(tree, <<2>>)) - n,
                  plain |-> SubSeq(Encode(tree, <<2>>), 1, n)] :
                    n \in 0..Len(Encode(tree, <<2>>))} : tree \in TruncObfTrees}

InitTrunc ==
    /\ \E in \in TruncInputs, segs \in TruncSelectors :
           /\ file = IF in.kind = "obf" THEN ObfFile(KeyOf(7), in.plain) ELSE in.plain
           /\ ghost = [kind |-> in.kind, tree |-> in.tree, cut |-> in.cut,
                       plain |-> in.plain, segs |-> segs, text |-> SelectorText(segs)]
    /\ cls \in TruncClasses
    /\ st = "new"
    /\ rd = NoReader
    /\ last = NoLast
    /\ it = NoIter
    /\ os = NoOs
    /\ heap = NoHeap

\* reader = cls(fp)
DoNewReader ==
    /\ st = "new"
    /\ \E res \in {ReaderOf(cls, file)} :
           /\ st' = IF res.ok THEN "open" ELSE "failed"
           /\ rd' = res.rd
           /\ last' = [NoLast EXCEPT !.op = "init", !.ok = res.ok, !.err = res.err]
    /\ UNCHANGED <<file, cls, it, os, heap, ghost>>

\* SBParser(cls(fp)).parse()
DoParse ==
    /\ st = "new"
    /\ st' = "done"
    /\ \E res \in {LoadWith(cls, file, ReaderOf(cls, file))} :
           /\ rd' = res.g.rd
           /\ last' = Result("parse", res)
    /\ UNCHANGED <<file, cls, it, os, heap, ghost>>

\* next() on SBParser(cls(fp)).iterparse(selector)
DoIterparse ==
    /\ st \in {"new", "iter"}
    /\ it.status \in {"none", "active"}
    /\ st' = "iter"
    /\ it' = IF it.status = "none"
             THEN IterWith(cls, file, ghost.text, ReaderOf(cls, file))
             ELSE IterResume(cls, file, it)
    /\ rd' = it'.g.rd
    /\ UNCHANGED <<file, cls, last, os, heap, ghost>>

NextTrunc == DoNewReader \/ DoParse \/ DoIterparse

SpecTrunc == InitTrunc /\ [][NextTrunc]_vars

\* the file is the obfuscation prefix and nothing else, read by a reader
\* that knows the obfuscation
PrefixOnly ==
    ghost.kind = "obf" /\ ghost.plain = <<>> /\ Len(file) = DATA_OFFSET
        /\ cls \in ReaderClasses

\* C21: for an obfuscated file that is exactly the 0x22C-byte prefix, the
\* reader is at eof right after construction, and decoding fails with the
\* error a short read raises ('Unexpected end of file'): not with another
\* error, and not by returning a value.
PrefixOnlyIsTruncation ==
    PrefixOnly =>
        /\ st # "failed"
        /\ st = "open" => Eof(rd)
        /\ st = "done" => last.k = "error" /\ last.err = "Unexpected end of file"

\* C22: for every finite input, parse and iterparse over a libfb2 TypeReader
\* or DecryptingTypeReader come to an end, with a value or with an error:
\* no call, read_cstring at the reader's limit included, goes on for ever.
ParseComesToAnEnd ==
    cls \in {"TypeReader", "DecryptingTypeReader"} =>
        /\ st = "done" => last.k \in {"ok", "error"}
        /\ st = "iter" => it.status \in {"active", "finished", "error"}


(***************************************************************************)
(* The scanner and the readers of the files it has yielded                 *)
(***************************************************************************)
\* How the scanner's file object reads.  "direct": every read, seek and tell
\* goes to the open file, at the offset it shares with the duplicated
\* descriptors.  "ahead": the first read takes the whole file into the
\* object's buffer (a file no longer than the buffer); reads and seeks
\* inside the buffer use the object's own position pos, and a read at the
\* end of the buffer asks the open file again, at the shared offset.
ShareModes == {"direct", "ahead"}

\* the step starts inside the buffer
InBuffer(o, f, filled, pos) == filled /\ pos < Len(Content(o, f))

\* get_next_file on such a file object: what it comes back with
ShareScan(o, f, filled, pos) ==
    IF InBuffer(o, f, filled, pos) THEN GetNextFile(OsSeek(o, f, pos), f)
    ELSE GetNextFile(o, f)

\* the shared offset after the step that came back with out
ShareOffset(mode, o, f, filled, pos, out) ==
    IF mode = "direct" THEN out.os
    ELSE IF InBuffer(o, f, filled, pos) THEN o
    ELSE OsSeek(o, f, Len(Content(o, f)))

\* shards of records with different sha1 and a payload
ShareInputs ==
    {[kind |-> "good", recs |-> recs, bad |-> 0, plain |-> ShardFrom(recs, 1)] :
        recs \in {rs \in ScanRecordSeqs :
                     \A j \in 1..Len(rs) : rs[j].sha1 = ShaOf(j - 1) /\ rs[j].size > 0}}

InitShare ==
    /\ \E in \in ShareInputs :
           /\ file = in.plain
           /\ ghost = in
    /\ cls = "BundleFileStream"
    /\ st = "iter"
    /\ rd = NoReader
    /\ last = NoOpenLast
    /\ it = NoIter
    /\ os = OsOpen([disk |-> (ShardName :> file), ofd |-> <<>>, fd |-> <<>>], ShardName)
    /\ \E mode \in ShareModes :
           heap = [kind |-> "share", mode |-> mode, f |-> 1, filled |-> FALSE,
                   pos |-> 0, recs |-> <<>>, opens |-> 0, readers |-> <<>>]

\* the next step of the iteration over CASFileReader(filename); the steps
\* stop once one file more than the shard has was yielded
DoShareNext ==
    /\ st = "iter"
    /\ Len(heap.recs) <= MaxScan
    /\ \E out \in {ShareScan(os, heap.f, heap.mode = "ahead" /\ heap.filled, heap.pos)} :
           /\ st' = CASE out.k = "file" -> "iter" [] out.k = "eof" -> "done"
                      [] OTHER -> "failed"
           /\ os' = ShareOffset(heap.mode, os, heap.f,
                                heap.mode = "ahead" /\ heap.filled, heap.pos, out)
           /\ heap' = [heap EXCEPT !.filled = TRUE,
                                   !.pos = Offset(out.os, heap.f),
                                   !.recs = IF out.k = "file" THEN Append(@, out.v) ELSE @]
           /\ last' = [NoOpenLast EXCEPT !.op = "next", !.ok = (out.k # "error"),
                                         !.err = out.err]
    /\ UNCHANGED <<file, cls, rd, it, ghost>>

NextShare ==
    \/ DoShareNext
    \/ \E j \in 1..Len(heap.recs) : DoOpen(j)
    \/ \E i \in 1..MaxReaders, n \in {-1, 1} : DoReaderRead(i, n)
    \/ \E i \in 1..MaxReaders, how \in {0, 2} : DoReaderSeek(i, 1, how)

SpecShare == InitShare /\ [][NextShare]_vars

\* C23: opening a CASFile the scanner has yielded (through os.dup of the
\* scanner's file) and reading or seeking it between two scanner steps does
\* not change what the scanner yields next: in every interleaving the
\* scanner yields the records of the shard, in order, with their sha1,
\* offset and size, as a scan left alone does, and ends after the last.
ScanUndisturbed ==
    /\ st # "failed"
    /\ Len(heap.recs) <= Len(ghost.recs)
    /\ \A j \in 1..Len(heap.recs) :
          /\ heap.recs[j].key = ghost.recs[j].sha1
          /\ heap.recs[j].size = ghost.recs[j].size
          /\ heap.recs[j].offset = PayloadStart(ghost.recs, j)
    /\ st = "done" => Len(heap.recs) = Len(ghost.recs)


(***************************************************************************)
(* iterparse event by event: the path stack and what is materialized       *)
(***************************************************************************)

\* iterparse up to its for loop: the selector function, the generator
\* read_object(), the empty stack
IterEntered(selector, reader) ==
    IF ~reader.ok THEN IterRaise([NoIter EXCEPT !.g = Gen(reader.rd, <<>>)],
                                 "error", reader.err)
    ELSE [NoIter EXCEPT !.g = Gen(reader.rd, <<Frame("read_object", "start", -1)>>),
                        !.selectors = MakeSelectorFunction(selector),
                        !.status = "active"]

\* one round of the for loop of iterparse, with e what iterator.next() came
\* back with
IterBody(cx, s, e) ==
    IF e.k = "stop" THEN [s EXCEPT !.g = e.g, !.status = "finished"]
    ELSE IF e.k # "event" THEN IterRaise([s EXCEPT !.g = e.g], e.k, e.err)
    ELSE IterEvent(cx, [s EXCEPT !.g = e.g], e, SelectorFunc(s.selectors, s.stack))

\* the read_list and read_dict generators of g that have yielded their start
\* event and not yet their end event
OpenCollections(g) ==
    Cardinality({i \in 1..Len(g.fr) :
                    /\ g.fr[i].f \in {"read_list", "read_dict"}
                    /\ g.fr[i].pc \in {"loop", "item", "key", "in_object"}})

\* selectors given together, as lists of segments
StackSelectors ==
    {<< <<SegAny>> >>,
     << <<SegStr(<<97>>)>> >>,
     << <<SegAny, SegAny>> >>,
     << <<SegAny, SegAny, SegAny>> >>,
     << <<SegAny>>, <<SegAny, SegAny>> >>,
     << <<SegStr(<<97>>), SegInt(0, 0)>>, <<SegStr(<<97>>)>> >>,
     << <<SegAny, SegInt(1, 0)>>, <<SegInt(0, 0)>> >>}

\* "a.0, a": the texts joined by a comma and a space
RECURSIVE SelectorsText(_)
SelectorsText(sels) ==
    IF Len(sels) = 1 THEN SelectorText(sels[1])
    ELSE SelectorText(sels[1]) \o <<COMMA, 32>> \o SelectorsText(Tail(sels))

NoStackHeap == [kind |-> "stack", deepest |-> 0, paths |-> <<>>, spans |-> <<>>]

InitStack ==
    /\ cls = "DecryptingTypeReader"
    /\ st = "new"
    /\ rd = NoReader
    /\ last = NoLast
    /\ it = NoIter
    /\ os = NoOs
    /\ heap = NoStackHeap
    /\ \E tree \in Trees(MaxDepth), sels \in StackSelectors :
           /\ file = Encode(tree, <<2>>)
           /\ ghost = [kind |-> "tree", tree |-> tree, sels |-> sels,
                       text |-> SelectorsText(sels)]

\* the first next() on iterparse(selector), up to the for loop
DoIterBegin ==
    /\ st = "new"
    /\ st' = "iter"
    /\ it' = IterEntered(ghost.text, ReaderOf(cls, file))
    /\ rd' = it'.g.rd
    /\ UNCHANGED <<file, cls, last, os, heap, ghost>>

\* the for loop of iterparse takes its next event
DoIterEvent ==
    /\ st = "iter"
    /\ it.status = "active"
    /\ \E n \in {IterBody(Cx(cls, file), [it EXCEPT !.paused = FALSE],
                          Resume(Cx(cls, file), it.g))} :
           /\ it' = n
           /\ rd' = n.g.rd
           /\ heap' = IF Len(n.out) > Len(it.out)
                      THEN [heap EXCEPT !.paths = Append(@, it.stack),
                                        !.spans = Append(@, <<it.g.rd.pos, n.g.rd.pos>>)]
                      ELSE [heap EXCEPT !.deepest = Max(@, Len(n.stack))]
    /\ UNCHANGED <<file, cls, st, last, os, ghost>>

NextStack == DoIterBegin \/ DoIterEvent

SpecStack == InitStack /\ [][NextStack]_vars

\* C24: during iterparse over a well-formed object, after every event the
\* depth of the path stack is the number of collections that are open and
\* were entered without being materialized; no list_item or dict_key is
\* applied to an empty stack and no list_end or dict_end pops one (either
\* would raise IndexError); the stack is empty when the events end.
StackTracksOpenCollections ==
    /\ it.status \in {"none", "active", "finished"}
    /\ it.status # "none" => Len(it.stack) = OpenCollections(it.g)
    /\ it.status = "finished" => it.stack = <<>>

\* the events ended after the stack had been two deep and a value inside
\* had been yielded
StackWentDeepAndEmptied ==
    /\ st = "iter"
    /\ it.status = "finished"
    /\ it.stack = <<>>
    /\ heap.deepest = MaxDepth
    /\ Len(it.out) > 0

\* some selector of sels accepts the path
Accepted(sels, path) ==
    \E k \in 1..Len(sels) :
        /\ Len(sels[k]) = Len(path)
        /\ \A i \in 1..Len(path) : SegAccepts(sels[k][i], path[i])

\* the subtrees of node at accepted paths that lie in no other such subtree,
\* in document order
RECURSIVE Outermost(_, _, _)
RECURSIVE OutermostFrom(_, _, _, _)
OutermostFrom(node, sels, path, i) ==
    IF i > Len(node.kids) THEN <<>>
    ELSE Outermost(node.kids[i], sels,
                   Append(path, IF node.t = "list" THEN LInt(i - 1)
                                ELSE LStr(node.keys[i])))
             \o OutermostFrom(node, sels, path, i + 1)
Outermost(node, sels, path) ==
    IF Accepted(sels, path) THEN <<node>> ELSE OutermostFrom(node, sels, path, 1)

IsPrefix(p, q) == Len(p) <= Len(q) /\ SubSeq(q, 1, Len(p)) = p

\* C25: with selectors that match a collection and a location inside it,
\* iterparse yields the outer collection only: what it yields are, in
\* document order, the subtrees at matching paths that lie in no other
\* matching subtree; no yielded path is a prefix of another, and the byte
\* ranges read by two materializations do not overlap.
YieldsOutermostOnly ==
    /\ it.status \in {"none", "active", "finished"}
    /\ Len(it.out) <= Len(Outermost(ghost.tree, ghost.sels, <<>>))
    /\ \A i \in 1..Len(it.out) :
          ValEq(it.out[i], ToValue(Outermost(ghost.tree, ghost.sels, <<>>)[i]))
    /\ it.status = "finished" =>
          Len(it.out) = Len(Outermost(ghost.tree, ghost.sels, <<>>))
    /\ \A i, j \in 1..Len(heap.paths) :
          i # j => ~IsPrefix(heap.paths[i], heap.paths[j])
    /\ \A i, j \in 1..Len(heap.spans) :
          i < j => heap.spans[i][2] <= heap.spans[j][1]

\* "*, *.*" over a list of two lists with elements: the two inner lists were
\* yielded, and none of their elements
OuterYieldedInnerNot ==
    /\ st = "iter"
    /\ it.status = "finished"
    /\ ghost.sels = << <<SegAny>>, <<SegAny, SegAny>> >>
    /\ ghost.tree.t = "list"
    /\ Len(ghost.tree.kids) = 2
    /\ \A i \in 1..2 : ghost.tree.kids[i].t = "list" /\ Len(ghost.tree.kids[i].kids) > 0
    /\ Len(it.out) = 2


(***************************************************************************)
(* TypeReader(fp) without a limit, on a file whose cursor is not at 0      *)
(***************************************************************************)
\* TypeReader.__init__ with limit=None and fp.tell() = o: fp.seek(0, 2),
\* limit = fp.tell(), fp.seek(o)
ImplicitReader(data, o) == NewReader(o, Len(data), FALSE, <<>>)

InitImplicit ==
    /\ \E n \in 0..MaxFile, o \in 0..MaxFile :
           /\ o <= n
           /\ file = Numbered(n)
           /\ ghost = [kind |-> "implicit", o |-> o]
    /\ cls = "TypeReader"
    /\ st = "new"
    /\ rd = NoReader
    /\ last = NoLast
    /\ it = NoIter
    /\ os = NoOs
    /\ heap = NoHeap

\* fp.seek(o); reader = TypeReader(fp)
DoTypeReader ==
    /\ st = "new"
    /\ st' = "open"
    /\ rd' = ImplicitReader(file, ghost.o)
    /\ last' = [NoLast EXCEPT !.op = "init"]
    /\ UNCHANGED <<file, cls, it, os, heap, ghost>>

NextImplicit ==
    \/ DoTypeReader
    \/ \E n \in {-1, 1, 2} : DoRead(n)
    \/ \E delta \in {0, 1}, how \in SeekMethods : DoSeek(delta, how)

SpecImplicit == InitImplicit /\ [][NextImplicit]_vars

\* C26: a TypeReader built without a limit on a file of S bytes with the
\* cursor at o has limit S - o; read() without argument returns the bytes
\* from the cursor to the end of the file; eof is true exactly when the
\* cursor of the file is at its end.
ImplicitLimitIsRemainder ==
    st = "open" =>
        /\ rd.limit = Len(file) - ghost.o
        /\ last.op = "read" /\ last.n < 0 =>
              /\ last.ok
              /\ last.data = SubSeq(file, ghost.o + last.start + 1, Len(file))
        /\ Eof(rd) <=> rd.cur >= Len(file)

=============================================================================
